---- MODULE Spec2Model ----
(***************************************************************************)
(* A model of the desktop agent's orchestration loop (agent/loop.py,       *)
(* agent/executor.py, agent/evaluator.py, agent/planner.py) and of the     *)
(* privacy layer it drives (tools/privacy.py).                             *)
(*                                                                         *)
(* Text is modelled as a sequence of tokens (Python strings split at       *)
(* blanks).  Three tokens stand for punctuation the code inspects:         *)
(*   SEP  the two characters ". " (period, blank) that final.split(". ")   *)
(*        cuts at,                                                         *)
(*   DOT  a period that is not followed by a blank,                        *)
(*   NL   a line break.                                                    *)
(* The reasoning engine and the tools' I/O are the environment: every      *)
(* reply and every tool outcome is a nondeterministic choice from a        *)
(* small menu.                                                             *)
(***************************************************************************)
EXTENDS Integers, Sequences, FiniteSets, TLC

VARIABLES
    pc,                     \* position of AgentLoop.run: idle / exec / eval / finish
    turn,                   \* number of run() calls started so far
    nlp_active,             \* privacy._nlp_active: "none" (not attempted) / "true" / "false"
    privacy_enabled,        \* AgentLoop._privacy_enabled
    session_entity_map,     \* AgentLoop._session_entity_map (ordered dict: seq of [ph, val])
    conversation,           \* AgentLoop._conversation
    last_redacted_input,    \* AgentLoop._last_redacted_input
    last_generated_files,   \* AgentLoop._last_generated_files
    db_messages,            \* rows of the conversations table
    db_tasks,               \* goals of the tasks table, oldest first
    time_confirmed,         \* Executor._time_confirmed
    user_input,             \* run(): the raw user message of the current turn
    safe_input,             \* run(): privacy_result.redacted_text
    steps,                  \* run(): the plan
    step_idx,               \* run(): index of the step being executed (1-based)
    attempt,                \* run(): 1 = first execution of the step, 2 = its retry
    eval_result,            \* run(): eval_result of the current step ("pending" before)
    redact_engine,          \* run(): privacy_result.engine
    step_results,           \* run(): step_results
    result_text,            \* run(): result_text of the last execute_step
    messages,               \* execute_step(): messages
    round_num,              \* execute_step(): round_num
    collected_files,        \* execute_step(): collected_files
    final,                  \* the value run() returned last
    synth,                  \* history: the answer as synthesized, before the integrity check
    checked,                \* history: the answer after the integrity check, before restore
    probed,                 \* history: the integrity check ran list_events
    restored_files,         \* history: the records restore was applied to (loop.py 229)
    produced,               \* history: every record the turn's tools generated, in order
    sent,                   \* history: the message contents of the last engine call
    calls,                  \* history: the tool invocations of the last executor round
    execs,                  \* history: execute_step calls made for the current step
    step_log,               \* history: per finished step, its execute_step calls and verdict
    engine_budget,          \* engine calls the session may still make
    fault_budget,           \* engine/tool failures the environment may still inject
    raised,                 \* history: where the exception that ended run() came from
    last_fault,             \* history: call site whose engine call just failed
    loads,                  \* history: times _load_presidio built and tested the backend
    lock,                   \* server._lock: the requests that hold it
    req,                    \* server: the requests in flight, by id
    arg,                    \* a function under test: its arguments
    ret,                    \* a function under test: what it returned
    _agent,                 \* server._agent: 0 (None) or the instance it refers to
    agents,                 \* the AgentLoop instances get_agent has built, in order
    clock,                  \* time.monotonic(), in ticks
    issued                  \* history: the times at which web searches were sent

vars == << pc, turn, nlp_active, privacy_enabled, session_entity_map, conversation,
           last_redacted_input, last_generated_files, db_messages, db_tasks,
           time_confirmed, user_input, safe_input, steps, step_idx, attempt,
           eval_result, redact_engine, step_results, result_text, messages, round_num,
           collected_files, final, synth, checked, probed, restored_files, produced, sent, calls,
           execs, step_log, engine_budget, fault_budget, raised, last_fault, loads,
           lock, req, arg, ret, _agent, agents, clock, issued >>

(***************************************************************************)
(* Bounds of the model.                                                    *)
(***************************************************************************)
MaxTurns == 2           \* run() calls per session
MaxEngineCalls == 4     \* calls of the reasoning engine per session
MaxFaults == 1          \* injected engine/tool failures per session
max_plan_steps == 2     \* cfg["agent"]["max_plan_steps"]
buffer_size == 6        \* cfg["agent"]["conversation_buffer_size"]
ExecEngineCalls == 8    \* engine calls of the one turn of SpecExec
MaxRequests == 3        \* requests the server receives
MaxTime == 4            \* ticks the clock is followed for
MaxSearches == 2        \* web searches one run makes
_interval == 2          \* _RateLimiter._interval (1.0 / max_per_second), in ticks
ServerEngineCalls == 6  \* engine calls of the turns the server runs

(***************************************************************************)
(* Program constants.                                                      *)
(***************************************************************************)
max_tool_rounds == 5    \* Executor.execute_step(max_tool_rounds=5)
EvalShortLen == 500     \* Evaluator.evaluate: len(tool_result) < 500
EvalSlice == 1000       \* AgentLoop.run: result_text[:1000]
OrgWindow == 25         \* _is_org_name: idx - 25 .. idx + len(name) + 25
RecentTasksLimit == 3   \* _build_context: recent_tasks(limit=3)
AttachmentLimit == 4000    \* loop.py: if len(text) > 4000

SEP == ". "
DOT == "."
NL == "\n"
LONG == "<<500 characters of tool output>>"

(***************************************************************************)
(* Generic sequence helpers.                                               *)
(***************************************************************************)
\* F applied to the value of v; v is evaluated once, however often F uses it.
With(v, F(_)) == CHOOSE r \in {F(x) : x \in {v}} : TRUE

RECURSIVE FlattenTo(_, _)
FlattenTo(ss, n) == IF n = 0 THEN << >> ELSE FlattenTo(ss, n - 1) \o ss[n]

\* the concatenation of a sequence of sequences
Flatten(ss) == With(ss, LAMBDA s : FlattenTo(s, Len(s)))

Min(a, b) == IF a < b THEN a ELSE b
Max(a, b) == IF a > b THEN a ELSE b

Prefix(s, n) == SubSeq(s, 1, Min(n, Len(s)))
Suffix(s, n) == SubSeq(s, Max(1, Len(s) - n + 1), Len(s))

\* str.lower() on one token: the vocabulary's capitalised tokens.
Lower(tok) ==
    CASE tok = "Karthik" -> "karthik"
      [] tok = "Schedule" -> "schedule"
      [] tok = "Tomorrow" -> "tomorrow"
      [] tok = "At" -> "at"
      [] tok = "Acme" -> "acme"
      [] tok = "Corp" -> "corp"
      [] tok = "Globex" -> "globex"
      [] OTHER -> tok

LowerText(t) == With(t, LAMBDA s : [i \in DOMAIN s |-> Lower(s[i])])

\* len() of a token in characters; LONG stands for 500 characters.
TokLen(tok) == IF tok = LONG THEN 500 ELSE Len(tok)

\* Separator written before token i of a text: tokens are joined by one blank,
\* punctuation tokens attach to the word before them.
Glue(t, i) == IF i = 1 \/ t[i] \in {SEP, DOT, NL, ","} \/ t[i - 1] \in {SEP, NL} THEN 0 ELSE 1

RECURSIVE CharPos(_, _)
\* 0-based character offset of token i in the string the tokens stand for.
CharPos(t, i) == IF i = 1 THEN 0 ELSE CharPos(t, i - 1) + TokLen(t[i - 1]) + Glue(t, i)

CharLen(t) == IF t = << >> THEN 0 ELSE CharPos(t, Len(t)) + TokLen(t[Len(t)])

\* s[:n] on a string: the longest prefix of whole tokens that fits in n
\* characters (a token cut in two is dropped).
Slice(t, n) ==
    With(t, LAMBDA s :
        With({k \in 0..Len(s) : CharLen(SubSeq(s, 1, k)) <= n}, LAMBDA fits :
            SubSeq(s, 1, CHOOSE k \in fits : \A j \in fits : j <= k)))

\* Occurrence of the token sequence p in t at token i (whole tokens).
OccursAt(t, i, p) == i + Len(p) - 1 <= Len(t) /\ SubSeq(t, i, i + Len(p) - 1) = p

(***************************************************************************)
(* loop.py: the explicit date/time grammar (_TIME_PATTERNS), token by      *)
(* token.  Each set holds the vocabulary's tokens of one lexical shape.    *)
(***************************************************************************)
NumTok == {"3", "14"}                       \* \d{1,2}
ClockTok == {"14:00"}                       \* \d{1,2}:\d{2}
NumAmPmTok == {"3pm", "10am"}               \* \d{1,2}(am|pm)
AmPmTok == {"am", "pm"}
IsoDateTok == {"2026-02-10"}                \* \d{4}-\d{2}-\d{2}
SlashDateTok == {"02/10/2026"}              \* \d{1,2}/\d{1,2}/\d{2,4}
RelDayTok == {"tomorrow", "today"}
WeekdayTok == {"monday", "tuesday", "wednesday", "thursday", "friday",
               "saturday", "sunday"}
\* tokens that begin with a digit: \d{1,2} with no boundary after it
DigitLedTok == NumTok \cup ClockTok \cup NumAmPmTok \cup IsoDateTok \cup SlashDateTok

TokAt(t, i) == IF i \in DOMAIN t THEN t[i] ELSE ""

\* r"\b\d{1,2}:\d{2}\b"
TimePattern1(t, i) == t[i] \in ClockTok
\* r"\b\d{1,2}\s*(?:am|pm)\b"
TimePattern2(t, i) == t[i] \in NumAmPmTok \/ (t[i] \in NumTok /\ TokAt(t, i + 1) \in AmPmTok)
\* r"\b(?:at|@)\s*\d{1,2}(?::\d{2})?\s*(?:am|pm)?\b"  ("@" alone has no \b before it)
TimePattern3(t, i) == t[i] = "at" /\ TokAt(t, i + 1) \in NumTok \cup ClockTok \cup NumAmPmTok
\* r"\b\d{4}-\d{2}-\d{2}\b"
TimePattern4(t, i) == t[i] \in IsoDateTok
\* r"\b\d{1,2}/\d{1,2}/\d{2,4}\b"
TimePattern5(t, i) == t[i] \in SlashDateTok
\* r"\b(?:tomorrow|today)\s+(?:at\s+)?\d{1,2}"
TimePattern6(t, i) ==
    t[i] \in RelDayTok /\ (TokAt(t, i + 1) \in DigitLedTok
                           \/ (TokAt(t, i + 1) = "at" /\ TokAt(t, i + 2) \in DigitLedTok))
\* r"\b(?:monday|...|sunday)\s+(?:at\s+)?\d{1,2}"
TimePattern7(t, i) ==
    t[i] \in WeekdayTok /\ (TokAt(t, i + 1) \in DigitLedTok
                            \/ (TokAt(t, i + 1) = "at" /\ TokAt(t, i + 2) \in DigitLedTok))

\* _has_specific_time: bool(_TIME_RE.search(text)), re.IGNORECASE
_has_specific_time(text) ==
    With(LowerText(text), LAMBDA t :
        \E i \in DOMAIN t :
           \/ TimePattern1(t, i) \/ TimePattern2(t, i) \/ TimePattern3(t, i)
           \/ TimePattern4(t, i) \/ TimePattern5(t, i) \/ TimePattern6(t, i)
           \/ TimePattern7(t, i))

(***************************************************************************)
(* loop.py step 7: the integrity check's vocabulary.                       *)
(***************************************************************************)
\* tokens of the vocabulary that contain "schedule", "meeting", "calendar",
\* "event" or "remind" as a substring (w in user_input.lower())
SchedulingWordTok == {"schedule", "scheduled", "reschedule", "meeting", "calendar",
                      "event", "remind", "reminder"}

scheduling_requested(text) ==
    With(LowerText(text), LAMBDA t : \E i \in DOMAIN t : t[i] \in SchedulingWordTok)

schedule_claims ==
    << << "has", "been", "added", "to", "your", "calendar" >>,
       << "has", "been", "scheduled" >>,
       << "event", "has", "been", "created" >>,
       << "meeting", "has", "been", "created" >>,
       << "added", "to", "calendar" >>,
       << "scheduled", "for" >>,
       << "created", "a", "calendar", "event" >>,
       << "event", "created" >> >>

\* Substring matching across tokens: the first token of an occurrence may end
\* with the phrase's first word and the last may begin with its last word.
EndsWith(tok, w) == tok = w \/ << tok, w >> \in {<< "rescheduled", "scheduled" >>}
StartsWith(tok, w) == tok = w \/ << tok, w >> \in {<< "events", "event" >>}

PhraseAt(t, i, p) ==
    /\ i + Len(p) - 1 <= Len(t)
    /\ EndsWith(t[i], p[1])
    /\ StartsWith(t[i + Len(p) - 1], p[Len(p)])
    /\ \A k \in 2..(Len(p) - 1) : t[i + k - 1] = p[k]

\* claim.lower() in s.lower()
ContainsPhrase(text, p) == With(LowerText(text), LAMBDA t : \E i \in DOMAIN t : PhraseAt(t, i, p))

ContainsAnyClaim(text) == \E c \in DOMAIN schedule_claims : ContainsPhrase(text, schedule_claims[c])

\* final.split(". "): sentence k runs between the (k-1)th and the kth separator
SplitSentences(text) ==
    With(text, LAMBDA t :
        With({0, Len(t) + 1} \cup {i \in DOMAIN t : t[i] = SEP}, LAMBDA cuts :
            [k \in 1..(Cardinality(cuts) - 1) |->
                With(CHOOSE i \in cuts : Cardinality({j \in cuts : j < i}) = k - 1, LAMBDA lo :
                    With(CHOOSE i \in cuts : Cardinality({j \in cuts : j < i}) = k, LAMBDA hi :
                        SubSeq(t, lo + 1, hi - 1)))]))

\* ". ".join(cleaned)
JoinSentences(ss) ==
    With(ss, LAMBDA s :
        Flatten([k \in DOMAIN s |-> IF k = 1 THEN s[k] ELSE << SEP >> \o s[k]]))

\* the body of the loop for one claim: the sentences that hold it are dropped
StripClaim(text, claim) ==
    With(text, LAMBDA t :
        IF ContainsPhrase(t, claim)
        THEN JoinSentences(SelectSeq(SplitSentences(t), LAMBDA s : ~ContainsPhrase(s, claim)))
        ELSE t)

RECURSIVE StripClaims(_, _)
\* for claim in schedule_claims, up to claim c: if claim in final: strip it
StripClaims(text, c) ==
    IF c = 0 THEN text ELSE StripClaim(StripClaims(text, c - 1), schedule_claims[c])

\* final.rstrip(". \n")
RStrip(text) ==
    With(text, LAMBDA t :
        With({k \in DOMAIN t : t[k] \notin {SEP, DOT, NL}}, LAMBDA keep :
            IF keep = {} THEN << >>
            ELSE SubSeq(t, 1, CHOOSE k \in keep : \A j \in keep : j <= k)))

\* the question appended when no free slot could be read
GenericQuestion ==
    << NL, NL, "To", "schedule", "the", "meeting", ",", "what", "date", "and", "time",
       "work", "for", "you?" >>

\* the question appended with the free slots of list_events
SlotQuestion(free_times) ==
    << NL, NL, "To", "schedule", "the", "meeting", ",", "when", "works", "best", "for",
       "you?", "Based", "on", "your", "calendar", ",", "these", "times", "are", "free:", NL >>
    \o free_times
    \o << NL, NL, "Just", "reply", "with", "your", "preferred", "date", "and", "time", DOT >>

(***************************************************************************)
(* tools/privacy.py: vocabularies.                                         *)
(***************************************************************************)
_ROLE_WORDS ==
    {"accountant", "advisor", "analyst", "assistant", "associate",
     "attorney", "aunt", "avp", "boss", "brother", "ceo", "cfo", "chief",
     "cmo", "colleague", "consultant", "coo", "cousin", "coworker", "cpo",
     "cto", "dad", "designer", "developer", "director", "doctor", "engineer",
     "evp", "friend", "head", "husband", "intern", "lawyer", "lead",
     "manager", "mom", "neighbor", "partner", "president", "professor",
     "roommate", "secretary", "sister", "supervisor", "svp", "uncle", "vp",
     "wife"}

_STOP_WORDS ==
    {"a", "about", "accept", "acme", "add", "after", "all", "also", "am",
     "an", "and", "any", "approve", "april", "are", "asked", "assign", "at",
     "attach", "attached", "august", "available", "bad", "bank", "based",
     "be", "been", "before", "being", "between", "big", "book", "both",
     "busy", "but", "by", "calendar", "called", "can", "cancel", "capital",
     "change", "check", "clean", "close", "closed", "combine", "company",
     "compare", "complete", "compose", "configure", "confirm", "convert",
     "copy", "corp", "corporation", "could", "count", "create", "current",
     "debug", "december", "decline", "delete", "department", "deploy", "did",
     "different", "discord", "discussed", "do", "document", "does", "done",
     "download", "draft", "during", "each", "early", "edit", "email",
     "empty", "enter", "enterprises", "entire", "event", "every", "export",
     "fast", "february", "file", "fill", "filter", "final", "find", "finish",
     "first", "fix", "folder", "follow", "for", "format", "forward",
     "foundation", "free", "friday", "from", "full", "get", "give", "global",
     "gmail", "go", "good", "google", "got", "group", "had", "handle", "has",
     "have", "having", "he", "help", "her", "hide", "him", "his", "i", "if",
     "import", "important", "in", "inbox", "inc", "include", "included",
     "inform", "informed", "install", "institute", "international", "into",
     "invoice", "is", "it", "its", "january", "july", "june", "just", "know",
     "labs", "last", "late", "latest", "let", "letter", "like", "linkup",
     "list", "llc", "load", "log", "long", "look", "ltd", "main", "make",
     "manage", "march", "mark", "may", "me", "meeting", "memo", "mentioned",
     "merge", "message", "microsoft", "monday", "monitor", "move", "my",
     "named", "need", "needed", "new", "next", "no", "nor", "not", "note",
     "november", "october", "of", "off", "old", "on", "open", "or",
     "organize", "original", "other", "our", "out", "outlook", "over",
     "partners", "pending", "personal", "plan", "please", "prepare",
     "previous", "print", "private", "process", "project", "public", "put",
     "quick", "reach", "reached", "read", "ready", "recent", "record",
     "reject", "related", "reminder", "remove", "reply", "report",
     "research", "reserve", "resolve", "review", "right", "run", "same",
     "saturday", "save", "say", "schedule", "scheduled", "search", "second",
     "see", "send", "september", "set", "setup", "shall", "share", "shared",
     "she", "short", "should", "show", "sign", "skype", "slack", "slow",
     "small", "so", "solutions", "some", "sort", "split", "start", "stop",
     "studio", "studios", "submit", "summarize", "sunday", "sure", "sync",
     "take", "task", "team", "teams", "tech", "technologies", "telegram",
     "tell", "test", "that", "the", "their", "them", "then", "they", "third",
     "this", "through", "thursday", "to", "track", "try", "tuesday", "type",
     "university", "until", "up", "upcoming", "update", "upload", "urgent",
     "us", "use", "ventures", "verify", "view", "want", "wanted", "was",
     "watch", "we", "wednesday", "were", "whatsapp", "who", "whole", "will",
     "with", "would", "write", "yet", "you", "your", "zoom"}

org_suffixes ==
    {"bank", "capital", "company", "corp", "corporation", "enterprises",
     "foundation", "group", "inc", "institute", "labs", "llc", "ltd",
     "partners", "solutions", "studios", "tech", "technologies",
     "university", "ventures"}

\* _PRE_NAME_KEYWORDS, the one-word and the two-word entries
PreNameKeywords1 ==
    {"to", "from", "with", "tell", "ask", "email", "message", "contact", "call",
     "notify", "invite", "cc", "bcc", "remind", "meet", "ping", "text"}
PreNameKeywords2 ==
    {<< "reply", "to" >>, << "schedule", "with" >>, << "meeting", "with" >>,
     << "call", "with" >>}

\* (?:my|our|the|his|her|their|your)
PossessiveTok == {"my", "our", "the", "his", "her", "their", "your"}

\* _REGEX_PATTERNS, in dict order, with the vocabulary's tokens of each shape
StructuredLabels == << "EMAIL", "PHONE", "SSN", "CREDIT_CARD", "IP_ADDRESS" >>
StructuredTok(label) ==
    CASE label = "EMAIL" -> {"bob@x.io", "amy@y.io"}
      [] label = "PHONE" -> {"555-123-4567"}
      [] label = "SSN" -> {"123-45-6789"}
      [] label = "CREDIT_CARD" -> {"4111-1111-1111-1111"}
      [] label = "IP_ADDRESS" -> {"10.0.0.1"}

\* tokens of the vocabulary that [a-zA-Z][a-zA-Z'-]* matches whole
WordTok ==
    {"schedule", "Schedule", "a", "meeting", "with", "alex", "karthik", "Karthik",
     "tomorrow", "Tomorrow", "at", "At", "email", "my", "cfo", "about", "lunch", "to",
     "the", "who", "is", "and", "cc", "from", "remind", "confirm", "acme", "corp",
     "deal", "today", "notes", "Acme", "Corp", "globex", "Globex", "zenith",
     "company", "rao", "labs"}

IsWord(t, i) == i \in DOMAIN t /\ t[i] \in WordTok

\* a placeholder without its closing bracket
PlaceholderOpen(label, n) == "<" \o label \o "_" \o ToString(n)

\* f"<{label}_{n}>"
Placeholder(label, n) == "<" \o label \o "_" \o ToString(n) \o ">"

\* s[:c] of the string the tokens stand for, as tokens; a token that c falls
\* inside is cut.  open says that the piece ends in a character of a token
\* (not in a separator).
CutBefore(t0, c) ==
    With(t0, LAMBDA t :
        With(Cardinality({i \in DOMAIN t : CharPos(t, i) + TokLen(t[i]) <= c}), LAMBDA k :
            IF k < Len(t) /\ CharPos(t, k + 1) < c
            THEN [toks |-> Append(SubSeq(t, 1, k),
                                  SubSeq(t[k + 1], 1, c - CharPos(t, k + 1))),
                  open |-> TRUE]
            ELSE [toks |-> SubSeq(t, 1, k),
                  open |-> k > 0 /\ CharPos(t, k) + TokLen(t[k]) = c]))

\* s[c:] of the string the tokens stand for, as tokens; open says that the
\* piece begins with a character of a token.
CutAfter(t0, c) ==
    With(t0, LAMBDA t :
        With(Cardinality({i \in DOMAIN t : CharPos(t, i) < c}), LAMBDA k :
            IF k > 0 /\ CharPos(t, k) + TokLen(t[k]) > c
            THEN [toks |-> << SubSeq(t[k], c - CharPos(t, k) + 1, Len(t[k])) >>
                           \o SubSeq(t, k + 1, Len(t)),
                  open |-> TRUE]
            ELSE [toks |-> SubSeq(t, k + 1, Len(t)),
                  open |-> k < Len(t) /\ CharPos(t, k + 1) = c]))

\* a + b on strings given as tokens: the last token of a and the first of b
\* become one token when no separator stands between them.
Concat(a, a_open, b, b_open) ==
    IF a # << >> /\ b # << >> /\ a_open /\ b_open
       /\ Glue(<< a[Len(a)], b[1] >>, 2) = 1
    THEN SubSeq(a, 1, Len(a) - 1) \o << a[Len(a)] \o b[1] >> \o Tail(b)
    ELSE a \o b

\* text[start:end]
CharSlice(t, start, end) == CutBefore(CutAfter(t, start).toks, end - start).toks

(***************************************************************************)
(* Ordered dicts (dict[str, str]) as sequences of [ph, val] in insertion   *)
(* order.                                                                  *)
(***************************************************************************)
MapKeys(m) == {m[i].ph : i \in DOMAIN m}
MapValues(m) == {m[i].val : i \in DOMAIN m}
MapGet(m, k) == (CHOOSE i \in DOMAIN m : m[i].ph = k)
MapLookup(m, k) == m[MapGet(m, k)].val

\* d[k] = v
MapSet(m0, k, v) ==
    With(m0, LAMBDA m :
        IF k \in MapKeys(m)
        THEN [i \in DOMAIN m |-> IF m[i].ph = k THEN [ph |-> k, val |-> v] ELSE m[i]]
        ELSE Append(m, [ph |-> k, val |-> v]))

RECURSIVE MapUpdateTo(_, _, _)
MapUpdateTo(m, other, n) ==
    IF n = 0 THEN m ELSE MapSet(MapUpdateTo(m, other, n - 1), other[n].ph, other[n].val)

\* d.update(other)
MapUpdate(m0, other0) ==
    With(m0, LAMBDA m : With(other0, LAMBDA other : MapUpdateTo(m, other, Len(other))))

(***************************************************************************)
(* privacy.restore                                                         *)
(***************************************************************************)
RECURSIVE StrFind(_, _, _)
\* str.find(sub) from character k on, 1-based; 0 when sub does not occur
StrFind(w, sub, k) ==
    IF k + Len(sub) - 1 > Len(w) THEN 0
    ELSE IF SubSeq(w, k, k + Len(sub) - 1) = sub THEN k
    ELSE StrFind(w, sub, k + 1)

RECURSIVE ReplaceInTok(_, _, _)
\* w.replace(tok, val) for a token w that is longer than tok
ReplaceInTok(w, tok, val) ==
    With(StrFind(w, tok, 1), LAMBDA k :
        IF k = 0 THEN << w >>
        ELSE With(IF k > 1 THEN << SubSeq(w, 1, k - 1) >> ELSE << >>, LAMBDA head :
                 With(IF k + Len(tok) <= Len(w)
                      THEN ReplaceInTok(SubSeq(w, k + Len(tok), Len(w)), tok, val)
                      ELSE << >>, LAMBDA tail :
                     Concat(Concat(head, TRUE, val, TRUE), TRUE, tail, TRUE))))

\* text.replace(placeholder, original): every occurrence
ReplaceAll(text, tok, val) ==
    With(text, LAMBDA t :
        Flatten([i \in DOMAIN t |-> IF t[i] = tok THEN val
                                     ELSE IF TokLen(t[i]) > Len(tok) /\ t[i] # LONG
                                     THEN ReplaceInTok(t[i], tok, val)
                                     ELSE << t[i] >>]))

\* text.replace(original, placeholder, 1): the first occurrence only
ReplaceFirst(text, tok, val) ==
    With(text, LAMBDA t :
        With({i \in DOMAIN t : t[i] = tok}, LAMBDA hits :
            IF hits = {} THEN t
            ELSE With(CHOOSE i \in hits : \A j \in hits : i <= j, LAMBDA k :
                     SubSeq(t, 1, k - 1) \o val \o SubSeq(t, k + 1, Len(t)))))

RECURSIVE RestoreTo(_, _, _)
RestoreTo(text, entity_map, n) ==
    IF n = 0 THEN text
    ELSE ReplaceAll(RestoreTo(text, entity_map, n - 1), entity_map[n].ph, entity_map[n].val)

\* a restore with placeholder and original exchanged: the first word of
\* every original is replaced by its placeholder
restore_swapped(text, entity_map) ==
    With(entity_map, LAMBDA m :
        RestoreTo(text, [i \in DOMAIN m |-> [ph |-> m[i].val[1], val |-> << m[i].ph >>]],
                  Len(m)))

\* for placeholder, original in entity_map.items(): text = text.replace(...)
restore(text, entity_map) ==
    With(text, LAMBDA t : With(entity_map, LAMBDA m : RestoreTo(t, m, Len(m))))

(***************************************************************************)
(* privacy._is_org_name and privacy._extract_name_candidates               *)
(***************************************************************************)
\* first whole-token, case-insensitive occurrence of name in text (0 if none):
\* re.compile(r"\b" + re.escape(final_name) + r"\b", re.IGNORECASE).search(text)
FirstOccurrence(text, name) ==
    With(LowerText(text), LAMBDA t :
        With(LowerText(name), LAMBDA n :
            With({i \in DOMAIN t : OccursAt(t, i, n)}, LAMBDA hits :
                IF hits = {} THEN 0 ELSE CHOOSE i \in hits : \A j \in hits : i <= j)))

\* tokens of the vocabulary that contain an organisation signal word, with
\* the offset and length of that word inside the token
OrgSignal(tok) ==
    CASE tok = "company" -> << 0, 7 >>
      [] tok = "firm" -> << 0, 4 >>
      [] tok = "confirm" -> << 3, 4 >>
      [] tok = "startup" -> << 0, 7 >>
      [] tok = "corporation" -> << 0, 11 >>
      [] tok = "organization" -> << 0, 12 >>
      [] OTHER -> << 0, 0 >>

\* at is text.lower().find(name_lower) as a token index, [lo, hi) the window
_is_org_name(name, text) ==
    With(LowerText(name), LAMBDA words :
    With(LowerText(text), LAMBDA t :
    With(FirstOccurrence(t, words), LAMBDA at :
    With(IF at > 0 THEN CharPos(t, at) ELSE 0, LAMBDA idx :
    With(Max(0, idx - OrgWindow), LAMBDA lo :
    With(Min(idx + CharLen(words) + OrgWindow, CharLen(t)), LAMBDA hi :
        \/ \E w \in DOMAIN words : words[w] \in org_suffixes
        \/ /\ at > 0
           /\ \E j \in DOMAIN t :
                 With(OrgSignal(t[j]), LAMBDA sig :
                     With(CharPos(t, j) + sig[1], LAMBDA from :
                         sig[2] > 0 /\ from >= lo /\ from + sig[2] <= hi))))))))

\* Number of consecutive word tokens at i, at most k.
RECURSIVE WordRun(_, _, _)
WordRun(t, i, k) == IF k = 0 \/ ~IsWord(t, i) THEN 0 ELSE 1 + WordRun(t, i + 1, k - 1)

LowerAt(t, i) == Lower(TokAt(t, i))

\* One attempt of a cue pattern at token i: the tokens the match consumes
\* (0: no match at i) and the length of group 1, which starts at token `from`.
NoMatch == [used |-> 0, from |-> 0, n |-> 0]

\* _PATTERN_NAME_ROLE: 1-2 words, a possessive/article, a role word
MatchNameRole(t, i) ==
    IF IsWord(t, i) /\ IsWord(t, i + 1) /\ LowerAt(t, i + 2) \in PossessiveTok
       /\ LowerAt(t, i + 3) \in _ROLE_WORDS
    THEN [used |-> 4, from |-> i, n |-> 2]
    ELSE IF IsWord(t, i) /\ LowerAt(t, i + 1) \in PossessiveTok
            /\ LowerAt(t, i + 2) \in _ROLE_WORDS
    THEN [used |-> 3, from |-> i, n |-> 1]
    ELSE NoMatch

\* the tail of _PATTERN_NAME_WHOIS at token j: who is [possessive] role
WhoIsTail(t, j) ==
    IF LowerAt(t, j) = "who" /\ LowerAt(t, j + 1) = "is"
    THEN IF LowerAt(t, j + 2) \in PossessiveTok /\ LowerAt(t, j + 3) \in _ROLE_WORDS THEN 4
         ELSE IF LowerAt(t, j + 2) \in _ROLE_WORDS THEN 3 ELSE 0
    ELSE 0

\* _PATTERN_NAME_WHOIS
MatchNameWhoIs(t, i) ==
    IF IsWord(t, i) /\ IsWord(t, i + 1) /\ WhoIsTail(t, i + 2) > 0
    THEN [used |-> 2 + WhoIsTail(t, i + 2), from |-> i, n |-> 2]
    ELSE IF IsWord(t, i) /\ WhoIsTail(t, i + 1) > 0
    THEN [used |-> 1 + WhoIsTail(t, i + 1), from |-> i, n |-> 1]
    ELSE NoMatch

\* the tail of _PATTERN_NAME_COMMA_ROLE at token j: , possessive role
CommaTail(t, j) ==
    TokAt(t, j) = "," /\ LowerAt(t, j + 1) \in PossessiveTok /\ LowerAt(t, j + 2) \in _ROLE_WORDS

\* _PATTERN_NAME_COMMA_ROLE
MatchNameCommaRole(t, i) ==
    IF IsWord(t, i) /\ IsWord(t, i + 1) /\ CommaTail(t, i + 2)
    THEN [used |-> 5, from |-> i, n |-> 2]
    ELSE IF IsWord(t, i) /\ CommaTail(t, i + 1)
    THEN [used |-> 4, from |-> i, n |-> 1]
    ELSE NoMatch

\* _PATTERN_KEYWORD_NAME: a keyword, then 1-3 words (greedy).  The one-word
\* keywords come first in the alternation, so "call with x" is "call" + "with x".
MatchKeywordName(t, i) ==
    With(IF LowerAt(t, i) \in PreNameKeywords1 /\ IsWord(t, i + 1) THEN 1
         ELSE IF << LowerAt(t, i), LowerAt(t, i + 1) >> \in PreNameKeywords2
                 /\ IsWord(t, i + 2) THEN 2
         ELSE 0, LAMBDA k :
        IF k = 0 THEN NoMatch
        ELSE With(WordRun(t, i + k, 3), LAMBDA n : [used |-> k + n, from |-> i + k, n |-> n]))

\* all_patterns, in the order the code applies them
MatchPattern(p, t, i) ==
    CASE p = 1 -> MatchNameRole(t, i)
      [] p = 2 -> MatchNameWhoIs(t, i)
      [] p = 3 -> MatchNameCommaRole(t, i)
      [] p = 4 -> MatchKeywordName(t, i)

RECURSIVE FindIter(_, _, _)
\* pattern.finditer(text): leftmost matches, not overlapping
FindIter(p, t, i0) ==
    With(i0, LAMBDA i :
        IF i > Len(t) THEN << >>
        ELSE With(MatchPattern(p, t, i), LAMBDA m :
                 IF m.used = 0 THEN FindIter(p, t, i + 1)
                 ELSE << m >> \o FindIter(p, t, i + m.used)))

\* while words and words[0].lower() in _STOP_WORDS: words = words[1:]
StripLeadingStop(ws0) ==
    With(ws0, LAMBDA ws :
        With({k \in DOMAIN ws : Lower(ws[k]) \notin _STOP_WORDS}, LAMBDA keep :
            IF keep = {} THEN << >>
            ELSE SubSeq(ws, CHOOSE k \in keep : \A j \in keep : k <= j, Len(ws))))

\* while words and words[-1].lower() in _STOP_WORDS: words = words[:-1]
StripTrailingStop(ws0) ==
    With(ws0, LAMBDA ws :
        With({k \in DOMAIN ws : Lower(ws[k]) \notin _STOP_WORDS}, LAMBDA keep :
            IF keep = {} THEN << >>
            ELSE SubSeq(ws, 1, CHOOSE k \in keep : \A j \in keep : j <= k)))

\* a loop that strips nothing
TrimStopWordsNone(ws) == ws

\* lines 293-305: strip leading, then trailing stop words
TrimStopWords(ws) == StripTrailingStop(StripLeadingStop(ws))

\* The body of the loop for one match: the candidate [name, start, end) it
\* yields, or NoCandidate.
NoCandidate == [name |-> << >>, start |-> 0, end |-> 0]

CandidateOf(text, m) ==
    With(SubSeq(text, m.from, m.from + m.n - 1), LAMBDA name :
    With(TrimStopWords(name), LAMBDA final_name :
    With(FirstOccurrence(text, final_name), LAMBDA at :
        IF CharLen(name) < 2 \/ final_name = << >> \/ CharLen(final_name) < 3
           \/ (Len(final_name) = 1 /\ Lower(final_name[1]) \in _STOP_WORDS)
           \/ _is_org_name(final_name, text) \/ at = 0
        THEN NoCandidate
        ELSE [name |-> SubSeq(text, at, at + Len(final_name) - 1),
              start |-> at, end |-> at + Len(final_name)])))

\* seen_spans: a candidate whose span an earlier match produced is dropped
KeepNewSpans(cs0) ==
    With(cs0, LAMBDA cs :
        SelectSeq([k \in DOMAIN cs |->
                      IF \E j \in 1..(k - 1) : cs[j] = cs[k] THEN NoCandidate ELSE cs[k]],
                  LAMBDA c : c # NoCandidate))

_extract_name_candidates(text0) ==
    With(text0, LAMBDA text :
        With(FindIter(1, text, 1) \o FindIter(2, text, 1)
             \o FindIter(3, text, 1) \o FindIter(4, text, 1), LAMBDA matches :
            KeepNewSpans([k \in DOMAIN matches |-> CandidateOf(text, matches[k])])))

\* candidates.sort(key=lambda c: c[1], reverse=True): stable, so a candidate
\* goes after those that start later and after the earlier ones of its start
SortByStartDesc(cs0) ==
    With(cs0, LAMBDA cs :
        [r \in DOMAIN cs |->
            cs[CHOOSE i \in DOMAIN cs :
                   Cardinality({j \in DOMAIN cs : \/ cs[j].start > cs[i].start
                                                  \/ (cs[j].start = cs[i].start /\ j < i)})
                   = r - 1]])

(***************************************************************************)
(* privacy._regex_redact, _regex_name_pass, _presidio_redact, redact       *)
(***************************************************************************)
\* The state of one redaction pass: the text, the pass's entity map and its
\* per-type counters (counter.get(label, 0)).
CounterOf(st, label) == IF label \in DOMAIN st.counter THEN st.counter[label] ELSE 0

Bump(st, label) ==
    [x \in DOMAIN st.counter \cup {label} |-> IF x = label THEN CounterOf(st, label) + 1
                                                ELSE st.counter[x]]

\* original in entity_map.values()
SeenValue(st, original) == << original >> \in MapValues(st.emap)

\* lines 353-359, for one match of a pattern
RedactMatch(st0, label, original) ==
    With(st0, LAMBDA st :
        IF SeenValue(st, original) THEN st
        ELSE With(Placeholder(label, CounterOf(st, label) + 1), LAMBDA ph :
                 [text |-> ReplaceFirst(st.text, original, << ph >>),
                  emap |-> MapSet(st.emap, ph, << original >>),
                  counter |-> Bump(st, label)]))

RECURSIVE RedactMatches(_, _, _, _)
\* lines 352-359: the first n matches of one label, in text order
RedactMatches(st, label, matches, n) ==
    IF n = 0 THEN st
    ELSE RedactMatch(RedactMatches(st, label, matches, n - 1), label, matches[n])

\* pattern.finditer(text) for the pattern of one label
StructuredMatches(text, label) == SelectSeq(text, LAMBDA tok : tok \in StructuredTok(label))

RECURSIVE RedactStructured(_, _)
\* lines 351-359: for label, pattern in _REGEX_PATTERNS.items(), up to label l
RedactStructured(st0, l) ==
    IF l = 0 THEN st0
    ELSE With(RedactStructured(st0, l - 1), LAMBDA st :
             With(StructuredMatches(st.text, StructuredLabels[l]), LAMBDA matches :
                 RedactMatches(st, StructuredLabels[l], matches, Len(matches))))

\* lines 368-381 (and 442-455), for one candidate.  A candidate is a run of
\* whole words, so the characters around it are never letters and the two
\* isalpha() tests never reject it; "<" never occurs in a name.
RedactName(st0, c) ==
    With(st0, LAMBDA st :
        With(IF c.end - 1 <= Len(st.text) THEN SubSeq(st.text, c.start, c.end - 1)
             ELSE << >>, LAMBDA current :
            IF LowerText(current) # LowerText(c.name) THEN st
            ELSE With(Placeholder("PERSON", CounterOf(st, "PERSON") + 1), LAMBDA ph :
                     [text |-> SubSeq(st.text, 1, c.start - 1) \o << ph >>
                                \o SubSeq(st.text, c.end, Len(st.text)),
                      emap |-> MapSet(st.emap, ph, c.name),
                      counter |-> Bump(st, "PERSON")])))

RECURSIVE RedactNames(_, _, _)
\* lines 367-381 (and 441-455): the first n candidates, from right to left
RedactNames(st, cs, n) ==
    IF n = 0 THEN st ELSE RedactName(RedactNames(st, cs, n - 1), cs[n])

_regex_redact(text) ==
    With(RedactStructured([text |-> text, emap |-> << >>, counter |-> << >>],
                          Len(StructuredLabels)), LAMBDA st1 :
        With(SortByStartDesc(_extract_name_candidates(st1.text)), LAMBDA cs :
            With(RedactNames(st1, cs, Len(cs)), LAMBDA st2 :
                [redacted_text |-> st2.text, entity_map |-> st2.emap])))

\* re.findall(r"<PERSON_\d+>", text)
PersonPlaceholderTok == {Placeholder("PERSON", n) : n \in 1..9}

_regex_name_pass(text) ==
    With(Len(SelectSeq(text, LAMBDA tok : tok \in PersonPlaceholderTok)), LAMBDA existing :
        With(SortByStartDesc(_extract_name_candidates(text)), LAMBDA cs :
            With(RedactNames([text |-> text, emap |-> << >>,
                              counter |-> [x \in {"PERSON"} |-> existing]], cs, Len(cs)),
                 LAMBDA st1 : [redacted_text |-> st1.text, entity_map |-> st1.emap])))

\* _REDACT_ENTITY_TYPES
_REDACT_ENTITY_TYPES ==
    {"PERSON", "EMAIL_ADDRESS", "PHONE_NUMBER", "US_SSN", "CREDIT_CARD", "IP_ADDRESS",
     "EMAIL", "PHONE", "SSN"}

\* A RecognizerResult of analyzer.analyze: entity_type, and start and end as
\* character offsets into the analysed text.
TokenResult(t, i, etype) ==
    [start |-> CharPos(t, i), end |-> CharPos(t, i) + TokLen(t[i]), entity_type |-> etype]

\* What the recogniser sees in one token of the vocabulary (a capitalised
\* name, an e-mail address, a date word).  The recogniser itself is a library.
AnalyzerType(tok) ==
    CASE tok \in {"Karthik"} -> "PERSON"
      [] tok \in StructuredTok("EMAIL") -> "EMAIL_ADDRESS"
      [] tok \in {"Tomorrow", "tomorrow", "today"} -> "DATE_TIME"
      [] OTHER -> "NONE"

\* What analyzer.analyze may return on a text: any set of the results above.
AnalyzerResults(text) ==
    SUBSET {TokenResult(text, i, AnalyzerType(text[i])) :
              i \in {j \in DOMAIN text : AnalyzerType(text[j]) # "NONE"}}

\* Results of two recognisers on the same digits: the analyzer drops a result
\* contained in another only when both have the same type, so a telephone
\* number is also reported, in part, as a social security number.
OverlappingResults(text) ==
    UNION {{ {TokenResult(text, i, "PHONE_NUMBER"),
              [start |-> CharPos(text, i) + 4, end |-> CharPos(text, i) + TokLen(text[i]),
               entity_type |-> "US_SSN"]} } :
             i \in {j \in DOMAIN text : text[j] \in StructuredTok("PHONE")}}

\* the outcome of analyzer.analyze: it returns results or raises
AnalyzerReports(results, faults) ==
    {[ok |-> TRUE, results |-> rs] : rs \in results}
    \cup (IF faults > 0 THEN {[ok |-> FALSE, results |-> {}]} ELSE {})

\* lines 103-112, for one result r; orig is the text that was analysed
PresidioReplaceOne(st0, orig, r) ==
    With(st0, LAMBDA st :
        With(CharSlice(orig, r.start, r.end), LAMBDA original :
            IF r.entity_type \notin _REDACT_ENTITY_TYPES \/ CharLen(original) < 2 THEN st
            ELSE With(Placeholder(r.entity_type, CounterOf(st, r.entity_type) + 1),
                      LAMBDA ph :
                     With(CutBefore(st.text, r.start), LAMBDA head :
                         With(CutAfter(st.text, r.end), LAMBDA tail :
                             [text |-> Concat(Concat(head.toks, head.open, << ph >>, TRUE),
                                              TRUE, tail.toks, tail.open),
                              emap |-> MapSet(st.emap, ph, original),
                              counter |-> Bump(st, r.entity_type)])))))

RECURSIVE PresidioReplace(_, _, _)
\* lines 102-112: sorted(results, key=start, reverse=True), one after the
\* other (no two results of the vocabulary start at the same character)
PresidioReplace(st, orig, results) ==
    IF results = {} THEN st
    ELSE With(CHOOSE r \in results : \A q \in results : q.start <= r.start, LAMBDA r :
             PresidioReplace(PresidioReplaceOne(st, orig, r), orig, results \ {r}))

_presidio_redact(text, results) ==
    With(PresidioReplace([text |-> text, emap |-> << >>, counter |-> << >>],
                         text, results), LAMBDA st :
        [redacted_text |-> st.text, entity_map |-> st.emap])

\* text.strip() is empty
IsBlank(text) == \A i \in DOMAIN text : text[i] = NL

\* a redact that does not look at its switch
redact_always(text, enabled, nlp_ok, report) ==
    IF nlp_ok /\ ~report.ok
    THEN [raised |-> TRUE]
    ELSE With(_regex_redact(text), LAMBDA r :
             [raised |-> FALSE, redacted_text |-> r.redacted_text,
              entity_map |-> r.entity_map, engine |-> "regex"])

\* redact(text, enabled); nlp_ok is what _load_presidio returns and report
\* the outcome of analyzer.analyze when it is called.  When the analyzer
\* raises, nothing in redact catches it: redact raises.
redact(text, enabled, nlp_ok, report) ==
    IF ~enabled \/ IsBlank(text)
    THEN [raised |-> FALSE, redacted_text |-> text, entity_map |-> << >>, engine |-> "none"]
    ELSE IF nlp_ok /\ ~report.ok
    THEN [raised |-> TRUE]
    ELSE IF nlp_ok
    THEN With(_presidio_redact(text, report.results), LAMBDA first :
             With(_regex_name_pass(first.redacted_text), LAMBDA extra :
                 [raised |-> FALSE,
                  redacted_text |-> IF extra.entity_map # << >> THEN extra.redacted_text
                                    ELSE first.redacted_text,
                  entity_map |-> MapUpdate(first.entity_map, extra.entity_map),
                  engine |-> "presidio"]))
    ELSE With(_regex_redact(text), LAMBDA r :
             [raised |-> FALSE, redacted_text |-> r.redacted_text,
              entity_map |-> r.entity_map, engine |-> "regex"])

(***************************************************************************)
(* tools: the registry and the tools the engine is offered.                *)
(***************************************************************************)
\* the names server.get_agent / main.bootstrap register
RegisteredTools ==
    {"web_research", "list_emails", "read_email", "draft_reply", "read_document",
     "list_documents", "summarize_document", "list_events", "create_event",
     "create_reminder", "memory_store", "memory_recall"}

\* the tools that write calendar files only
CalendarTools == {"create_event", "create_reminder"}

\* executor._WRITE_TOOLS
_WRITE_TOOLS == {"draft_reply", "create_event", "create_reminder"}

\* the tools the scheduling gate guards (executor.py line 83)
GatedTools == {"create_event", "create_reminder"}

\* A string argument / an argument of another type (a list of strings).
Str(text) == [str |-> TRUE, val |-> text]
NonStr(text) == [str |-> FALSE, val |-> text]

\* kwargs.get(key, "")
ArgText(args, key) == IF key \in DOMAIN args THEN args[key].val ELSE << >>

\* ToolResult(success=True, data=..., generated_files=...)
Ok(data, files) == [success |-> TRUE, data |-> data, error |-> << >>, generated_files |-> files]
\* ToolResult(success=False, error=...)
Failed(error) == [success |-> FALSE, data |-> << >>, error |-> error, generated_files |-> << >>]

\* tool.run(...) raising an exception whose text is error
Raises(error) == [raises |-> TRUE, error |-> error]
IsRaise(r) == "raises" \in DOMAIN r

\* ToolResult.__str__
ResultStr(r) == IF r.success THEN r.data ELSE << "[ERROR]" >> \o r.error

\* the error of the scheduling gate (executor.py lines 87-89)
BlockedError ==
    << "BLOCKED:", "Cannot", "create", "event", "-", "the", "user", "has", "not",
       "provided", "a", "specific", "date", "and", "time", DOT >>

\* calendar_adapter._parse_datetime: the vocabulary's parsable tokens
ParsableTok == {"2026-02-10T14:00:00", "2026-02-10"}
_parse_datetime(text) == Len(text) = 1 /\ text[1] \in ParsableTok

\* f"event_{datetime.now().strftime('%Y%m%d_%H%M%S')}.ics" and its like
FilePath(prefix, now, ext) == prefix \o ToString(now) \o ext

\* CreateEventTool.run; io_ok: writing the file succeeded
CreateEventRun(args, now, io_ok) ==
    LET summary == ArgText(args, "summary")
        start == ArgText(args, "start")
        path == FilePath("event_", now, ".ics")
    IN IF summary = << >> THEN Failed(<< "Missing", "event", "title", DOT >>)
       ELSE IF start = << >> THEN Failed(<< "Missing", "start", "time", DOT >>)
       ELSE IF ~_parse_datetime(start)
            THEN Failed(<< "Could", "not", "parse", "start", "time:" >> \o start)
       ELSE IF ~io_ok THEN Failed(<< "OSError" >>)
       ELSE Ok(<< "Event" >> \o summary \o << "created", "successfully", DOT, NL,
                  "ics_file:", path, "summary:" >> \o summary \o << "start:" >> \o start,
               << [type |-> "ics", path |-> path, label |-> summary] >>)

\* CreateReminderTool.run
CreateReminderRun(args, now, io_ok) ==
    LET title == ArgText(args, "title")
        when == ArgText(args, "when")
        path == FilePath("reminder_", now, ".ics")
    IN IF title = << >> THEN Failed(<< "Missing", "reminder", "title", DOT >>)
       ELSE IF when = << >> THEN Failed(<< "Missing", "time", DOT >>)
       ELSE IF ~_parse_datetime(when) THEN Failed(<< "Could", "not", "parse", "time:" >> \o when)
       ELSE IF ~io_ok THEN Failed(<< "OSError" >>)
       ELSE Ok(<< "Reminder" >> \o title \o << "created", "successfully", DOT, NL,
                  "ics_file:", path, "summary:" >> \o title \o << "start:" >> \o when,
               << [type |-> "ics", path |-> path, label |-> title] >>)

\* tokens re.sub(r"<[^>]+>", "", body) deletes, once <br> is a line break
TagTok == {Placeholder(l, n) : l \in {"PERSON", "EMAIL", "EMAIL_ADDRESS"}, n \in 1..9}

\* email_adapter.py lines 379-380: <br> becomes a line break, other tags go
StripHtml(body) ==
    SelectSeq([i \in DOMAIN body |-> IF body[i] = "<br>" THEN NL ELSE body[i]],
              LAMBDA tok : tok \notin TagTok)

\* _format_email_body on the vocabulary's bodies: a greeting line that ends
\* with a comma and is followed by a non-blank line gets a blank line after it
_format_email_body(body) ==
    IF /\ Len(body) >= 4
       /\ body[1] \in {"Dear", "dear", "Hi", "hi", "Hello", "hello", "Hey", "hey"}
       /\ \E i \in 2..(Len(body) - 1) :
             /\ body[i] = NL /\ body[i - 1] = "," /\ body[i + 1] # NL
             /\ \A j \in 1..(i - 1) : body[j] # NL
    THEN LET i == CHOOSE i \in 2..(Len(body) - 1) :
                      body[i] = NL /\ \A j \in 1..(i - 1) : body[j] # NL
         IN SubSeq(body, 1, i) \o << NL >> \o SubSeq(body, i + 1, Len(body))
    ELSE body

\* DraftReplyTool.run: the body is cleaned of tags and formatted before it is
\* saved; the other clean-ups leave the vocabulary's bodies as they are.  An
\* exception (io_ok false) leaves run() and is caught by _call_tool.
DraftReplyRun(args, now, io_ok) ==
    LET to == ArgText(args, "to")
        subject == ArgText(args, "subject")
        body == _format_email_body(StripHtml(ArgText(args, "body")))
        path == FilePath("draft_", now, ".eml")
    IN IF ~io_ok THEN Failed(<< "OSError" >>)
       ELSE Ok(<< "Draft", "email", "saved", "successfully", DOT, NL, "eml_file:", path,
                  "to:" >> \o to \o << "subject:" >> \o subject \o << "body:" >> \o body,
               << [type |-> "mailto", path |-> path,
                   label |-> IF subject = << >> THEN << "Email", "Draft" >> ELSE subject,
                   to |-> to, subject |-> subject, body |-> body] >>)

\* ListEventsTool.run: the report lists the busy events and, line by line,
\* the free slots; calendar is what the directory holds: "empty" (no event
\* at all) or "slots" (events, and free slots left).  "raises" stands for a
\* list_events tool of the registry whose run() raises.
FreeSlot == << "FREE:", "Monday", "2026-02-09", "at", "10:00" >>

ListEventsRun(calendar) ==
    CASE calendar = "empty" ->
            Ok(<< "Calendar", "is", "completely", "free", "-", "no", "events",
                  "scheduled", DOT >>, << >>)
      [] calendar = "slots" ->
            Ok(<< "EXISTING", "EVENTS", NL, "BUSY:", "standup", NL, "SUGGESTED", "FREE",
                  "TIMES", NL >> \o FreeSlot, << >>)
      [] calendar = "raises" -> Raises(<< "calendar", "unavailable" >>)

CalendarStates == {"empty", "slots"}

\* what a list_events query may meet, within the fault budget
CalendarOutcomes(faults) == CalendarStates \cup (IF faults > 0 THEN {"raises"} ELSE {})

\* What the environment decides for one tool invocation: whether the tool's
\* I/O succeeds and what the calendar directory holds.
ToolEnvs(name, faults) ==
    IF name = "list_events"
    THEN {[io_ok |-> c # "raises", calendar |-> c] : c \in CalendarOutcomes(faults)}
    ELSE {[io_ok |-> ok, calendar |-> "slots"] :
            ok \in (IF faults > 0 /\ name \in RegisteredTools THEN BOOLEAN ELSE {TRUE})}

\* tool.run(**args) for a registered tool
ToolRun(name, args, now, env) ==
    CASE name = "create_event" -> CreateEventRun(args, now, env.io_ok)
      [] name = "create_reminder" -> CreateReminderRun(args, now, env.io_ok)
      [] name = "draft_reply" -> DraftReplyRun(args, now, env.io_ok)
      [] name = "list_events" -> ListEventsRun(env.calendar)
      [] OTHER -> IF env.io_ok THEN Ok(<< "results", "for" >> \o ArgText(args, "query"), << >>)
                  ELSE Failed(<< "request", "failed" >>)

\* Executor._call_tool
_call_tool(name, args, now, env) ==
    IF name \notin RegisteredTools THEN Failed(<< "Unknown", "tool:", name >>)
    ELSE With(ToolRun(name, args, now, env), LAMBDA r :
             IF IsRaise(r) THEN Failed(r.error) ELSE r)

(***************************************************************************)
(* agent/planner.py                                                        *)
(***************************************************************************)
\* The engine's reply as Planner reads it: a sequence of lexemes, each a
\* bracket, a comma, a code fence, a JSON string (with its text), a JSON
\* number or a word of prose.
Lex(kind) == [lex |-> kind, text |-> << >>]
JStr(text) == [lex |-> "str", text |-> text]

RECURSIVE JsonItemsTo(_, _)
JsonItemsTo(texts, n) ==
    IF n = 0 THEN << >>
    ELSE JsonItemsTo(texts, n - 1) \o (IF n > 1 THEN << Lex(",") >> ELSE << >>)
         \o << JStr(texts[n]) >>

\* what json.dumps writes for a list of strings
JsonArray(texts) == << Lex("[") >> \o JsonItemsTo(texts, Len(texts)) \o << Lex("]") >>

\* a "key": value member of a JSON object; val is "true", "false" or "str"
\* (a string that is not empty)
JPair(key, val) == [lex |-> "pair", text |-> << key >>, val |-> val]

\* the verdict the evaluation prompt asks for, as json.dumps writes it
JsonVerdict(success, should_retry) ==
    << Lex("{"), JPair("success", IF success THEN "true" ELSE "false"), Lex(","),
       JPair("should_retry", IF should_retry THEN "true" ELSE "false"), Lex("}") >>

\* json.loads(lexs) succeeds and gives a list: brackets around values
\* separated by commas
IsJsonList(lexs) ==
    /\ Len(lexs) >= 2
    /\ lexs[1].lex = "[" /\ lexs[Len(lexs)].lex = "]"
    /\ Len(lexs) = 2 \/ Len(lexs) % 2 = 1
    /\ \A i \in 2..(Len(lexs) - 1) :
          IF i % 2 = 0 THEN lexs[i].lex \in {"str", "num"} ELSE lexs[i].lex = ","

\* Planner._parse_steps (lines 44-65)
_parse_steps(raw) ==
    With(IF raw # << >> /\ raw[1].lex = "fence"
         THEN (IF Len(raw) > 1 /\ raw[Len(raw)].lex = "fence"
               THEN SubSeq(raw, 2, Len(raw) - 1) ELSE Tail(raw))
         ELSE raw, LAMBDA text :
        With({i \in DOMAIN text : text[i].lex = "["}, LAMBDA opens :
            With({i \in DOMAIN text : text[i].lex = "]"}, LAMBDA closes :
                IF opens = {} \/ closes = {} THEN << >>
                ELSE With(SubSeq(text, CHOOSE i \in opens : \A j \in opens : i <= j,
                                 CHOOSE i \in closes : \A j \in closes : j <= i),
                          LAMBDA slice :
                         IF IsJsonList(slice)
                            /\ \A i \in DOMAIN slice : slice[i].lex # "num"
                         THEN [k \in 1..(Len(slice) \div 2) |-> slice[2 * k].text]
                         ELSE << >>))))

\* the engine failed or its reply held no array of steps: plan fell back
PlannerFellBack(reply) == reply.kind = "raise" \/ _parse_steps(reply.raw) = << >>

\* plan without the fallback of line 35: an empty array is returned as it is
plan_without_fallback(input, reply) ==
    IF reply.kind = "raise" THEN << input >>
    ELSE Prefix(_parse_steps(reply.raw), max_plan_steps)

\* Planner.plan (lines 22-42): the parsed array cut to max_steps, or the
\* one-step fallback
plan(input, reply) ==
    IF reply.kind = "raise" THEN << input >>
    ELSE With(_parse_steps(reply.raw), LAMBDA parsed :
             Prefix(IF parsed = << >> THEN << input >> ELSE parsed, max_plan_steps))

(***************************************************************************)
(* The reasoning engine's menu.                                            *)
(***************************************************************************)
P1 == Placeholder("PERSON", 1)

\* user messages (raw)
UserMessages ==
    { << "schedule", "a", "meeting", "with", "alex" >>,
      << "Schedule", "a", "meeting", "with", "Karthik", "Tomorrow", "at", "3pm" >>,
      << "email", "karthik", "my", "cfo", "about", "lunch" >> }

\* files sent with a message: one that is read and one that does not exist
AttachedFiles ==
    << [name |-> "notes.txt", exists |-> TRUE, readable |-> TRUE,
        text |-> << "notes", "from", "alex" >>],
       [name |-> "gone.txt", exists |-> FALSE, readable |-> FALSE, text |-> << >>] >>

\* the attachments a message may come with
AttachmentLists(msg) ==
    {<< >>} \cup (IF msg = << "email", "karthik", "my", "cfo", "about", "lunch" >>
                  THEN {AttachedFiles} ELSE {})

\* plans the engine may write (a JSON array of step strings)
PlanSteps == << << "check", "the", "calendar" >>, << "write", "to", P1 >>, << "wrap", "up" >> >>

\* prose without a JSON array
Prose == << Lex("word"), Lex("word") >>

PlannerReplies(faults) ==
    (IF faults > 0 THEN {[kind |-> "raise"]} ELSE {})
    \cup {[kind |-> "text", raw |-> Prose]}
    \cup {[kind |-> "text", raw |-> JsonArray(PlanSteps)]}

\* final texts of a step (and of the synthesis)
AnswerTexts ==
    { << "When", "works", "for", "you?" >>,
      << "I", "wrote", "to", P1, SEP, "The", "meeting", "has", "been", "scheduled", DOT >>,
      << "[ERROR]", "could", "not", "finish" >>,
      << LONG >> }

CreateEventCall ==
    [name |-> "create_event",
     args |-> [summary |-> Str(<< "meeting", "with", P1 >>),
               start |-> Str(<< "2026-02-10T14:00:00" >>)]]
CreateReminderCall ==
    [name |-> "create_reminder",
     args |-> [title |-> Str(<< "call", P1 >>), when |-> Str(<< "2026-02-10" >>)]]
DraftReplyCall ==
    [name |-> "draft_reply",
     args |-> [to |-> Str(<< P1 >>), subject |-> Str(<< "lunch" >>),
               body |-> Str(<< "Dear", P1, ",", "<br>", "see", "you", "soon" >>)]]
ListEventsCall == [name |-> "list_events", args |-> << >>]
WebResearchCall ==
    [name |-> "web_research", args |-> [query |-> Str(<< P1, "news" >>)]]
UnknownCall == [name |-> "send_email", args |-> [to |-> Str(<< P1 >>)]]

\* the tool_calls lists the engine may return in one reply
ToolCallLists ==
    { << DraftReplyCall >>, << ListEventsCall >>, << WebResearchCall, UnknownCall >>,
      << CreateReminderCall, CreateEventCall >> }

\* engine replies of one executor round
ExecutorReplies(faults) ==
    {[kind |-> "text", content |-> a, tool_calls |-> << >>] : a \in AnswerTexts}
    \cup {[kind |-> "tools", content |-> << >>, tool_calls |-> c] : c \in ToolCallLists}
    \cup (IF faults > 0 THEN {[kind |-> "raise", content |-> << >>, tool_calls |-> << >>]}
          ELSE {})

\* verdicts the engine may write when asked to evaluate
EvaluatorReplies(faults) ==
    {[kind |-> "text", raw |-> JsonVerdict(a, b)] : a \in BOOLEAN, b \in BOOLEAN}
    \cup {[kind |-> "text", raw |-> Prose]}
    \cup (IF faults > 0 THEN {[kind |-> "raise"]} ELSE {})

\* replies of the synthesis call
SynthesisReplies(faults) ==
    {[kind |-> "text", content |-> a] : a \in AnswerTexts \ {<< LONG >>}}
    \cup (IF faults > 0 THEN {[kind |-> "raise"]} ELSE {})

\* the texts of one chat message as the engine reads them: its content and
\* the argument values of its tool calls
MessageTexts(m) ==
    {m.content} \cup UNION {{m.tool_calls[c].args[k].val : k \in DOMAIN m.tool_calls[c].args} :
                               c \in DOMAIN m.tool_calls}

\* the texts of a list of chat messages
ChatTexts(msgs) == UNION {MessageTexts(msgs[i]) : i \in DOMAIN msgs}

Msg(role, content) == [role |-> role, content |-> content, tool_calls |-> << >>]

(***************************************************************************)
(* agent/executor.py                                                       *)
(***************************************************************************)
\* Executor._restore_args
_restore_args(args, entity_map) ==
    [k \in DOMAIN args |-> IF args[k].str THEN Str(restore(args[k].val, entity_map))
                           ELSE args[k]]

\* The gate never closes.
GateBlocksNever(name, confirmed) == FALSE

\* executor.py line 83: the scheduling gate
GateBlocks(name, confirmed) == name \in GatedTools /\ ~confirmed

\* The gate, once opened, stays open.
set_time_confirmed_sticky(old, confirmed) == old \/ confirmed

\* Executor.set_time_confirmed
set_time_confirmed(old, confirmed) == confirmed

\* The arguments of every tool are restored.
ToolArgsAlways(name, args, entity_map) ==
    IF entity_map # << >> THEN _restore_args(args, entity_map) ELSE args

\* The arguments reach every tool as the engine wrote them.
ToolArgsAsGiven(name, args, entity_map) == args

\* executor.py lines 77-79: the arguments the tool is called with
ToolArgs(name, args, entity_map) ==
    IF name \in _WRITE_TOOLS /\ entity_map # << >> THEN _restore_args(args, entity_map)
    ELSE args

\* executor.py lines 73-102, for one tool call: st is [messages, files, log, now]
ProcessCall(st0, tc, env, entity_map, confirmed) ==
    With(st0, LAMBDA st :
    With(ToolArgs(tc.name, tc.args, entity_map), LAMBDA fn_args :
    With(GateBlocks(tc.name, confirmed), LAMBDA blocked :
    With(IF blocked THEN Failed(BlockedError)
         ELSE _call_tool(tc.name, fn_args, st.now, env), LAMBDA result :
        [messages |-> Append(st.messages, Msg("tool", ResultStr(result))),
         files |-> st.files \o result.generated_files,
         log |-> Append(st.log, [name |-> tc.name, engine_args |-> tc.args,
                                 tool_args |-> fn_args, gate |-> confirmed,
                                 blocked |-> blocked,
                                 ran |-> ~blocked /\ tc.name \in RegisteredTools,
                                 result |-> result]),
         now |-> st.now]))))

RECURSIVE ProcessCalls(_, _, _, _, _, _)
\* for tc in tool_calls: the first n calls
ProcessCalls(st, tcs, envs, entity_map, confirmed, n) ==
    IF n = 0 THEN st
    ELSE ProcessCall(ProcessCalls(st, tcs, envs, entity_map, confirmed, n - 1),
                     tcs[n], envs[n], entity_map, confirmed)

Faults(envs) == Cardinality({i \in DOMAIN envs : ~envs[i].io_ok})

\* the environment's choices for a list of tool calls, within the fault budget
EnvChoices(tcs, faults) ==
    {envs \in [DOMAIN tcs -> UNION {ToolEnvs(tcs[i].name, faults) : i \in DOMAIN tcs}] :
        /\ \A i \in DOMAIN tcs : envs[i] \in ToolEnvs(tcs[i].name, faults)
        /\ Faults(envs) <= faults}

\* self._conversation[-self._buffer_size:]
_trim_conversation(conv) == Suffix(conv, buffer_size)

ExecutePrompt(step) == Msg("user", << "Execute", "this", "step:" >> \o step)

RetryStep(step, reason) ==
    << "Retry:" >> \o step \o << "(previous", "attempt", "failed:" >> \o reason \o << ")" >>

LlmError == << "[LLM", "error:", "timeout]" >>
MaxRoundsText == << "[Executor]", "Reached", "max", "tool", "rounds", "without", "a",
                    "final", "answer", DOT >>

(***************************************************************************)
(* agent/evaluator.py                                                      *)
(***************************************************************************)
\* "[ERROR]" in tool_result or tool_result.startswith("[LLM error")
HasErrorMarker(t) ==
    \/ \E i \in DOMAIN t : t[i] = "[ERROR]"
    \/ (Len(t) >= 2 /\ t[1] = "[LLM" /\ t[2] = "error:")

\* json.loads(lexs) succeeds and gives an object: braces around members
\* separated by commas
IsJsonObject(lexs) ==
    /\ Len(lexs) >= 2
    /\ lexs[1].lex = "{" /\ lexs[Len(lexs)].lex = "}"
    /\ Len(lexs) = 2 \/ Len(lexs) % 2 = 1
    /\ \A i \in 2..(Len(lexs) - 1) :
          IF i % 2 = 0 THEN lexs[i].lex = "pair" ELSE lexs[i].lex = ","

\* _parse_eval lines 58-66: the fences are stripped and the text from the
\* first "{" to the last "}" is parsed; << >> when there is no such text or
\* it is not JSON
EvalObject(raw) ==
    With(IF raw # << >> /\ raw[1].lex = "fence"
         THEN (IF Len(raw) > 1 /\ raw[Len(raw)].lex = "fence"
               THEN SubSeq(raw, 2, Len(raw) - 1) ELSE Tail(raw))
         ELSE raw, LAMBDA text :
        With({i \in DOMAIN text : text[i].lex = "{"}, LAMBDA opens :
            With({i \in DOMAIN text : text[i].lex = "}"}, LAMBDA closes :
                IF opens = {} \/ closes = {} THEN << >>
                ELSE With(SubSeq(text, CHOOSE i \in opens : \A j \in opens : i <= j,
                                 CHOOSE i \in closes : \A j \in closes : j <= i),
                          LAMBDA slice : IF IsJsonObject(slice) THEN slice ELSE << >>))))

\* bool(obj.get(key, default)): the last member of that name counts
ObjGetBool(obj, key, default) ==
    With({i \in DOMAIN obj : obj[i].lex = "pair" /\ obj[i].text = << key >>}, LAMBDA hits :
        IF hits = {} THEN default
        ELSE obj[CHOOSE i \in hits : \A j \in hits : j <= i].val \in {"true", "str"})

\* Evaluator._parse_eval on the engine's reply
_parse_eval(raw) ==
    With(EvalObject(raw), LAMBDA obj :
        IF obj # << >>
        THEN [success |-> ObjGetBool(obj, "success", TRUE), reason |-> << "judged" >>,
              should_retry |-> ObjGetBool(obj, "should_retry", FALSE)]
        ELSE [success |-> TRUE, reason |-> << "unparsed" >>, should_retry |-> FALSE])

\* the engine failed or its reply held no JSON verdict
EvaluatorFellBack(reply) == reply.kind = "raise" \/ EvalObject(reply.raw) = << >>

\* evaluate with the first two tiers exchanged: a short result counts as a
\* success before the error marker is looked for
evaluate_short_first(tool_result, reply) ==
    IF CharLen(tool_result) < EvalShortLen
    THEN [success |-> TRUE, reason |-> << "Tool", "returned", "a", "result", DOT >>,
          should_retry |-> FALSE]
    ELSE IF HasErrorMarker(tool_result)
    THEN [success |-> FALSE, reason |-> tool_result, should_retry |-> TRUE]
    ELSE IF reply.kind = "raise"
    THEN [success |-> TRUE, reason |-> << "Eval", "skipped" >>, should_retry |-> FALSE]
    ELSE _parse_eval(reply.raw)

\* evaluate with the third tier failing closed: an engine failure counts as
\* a failed step that is to be retried
evaluate_failing_closed(tool_result, reply) ==
    IF HasErrorMarker(tool_result)
    THEN [success |-> FALSE, reason |-> tool_result, should_retry |-> TRUE]
    ELSE IF CharLen(tool_result) < EvalShortLen
    THEN [success |-> TRUE, reason |-> << "Tool", "returned", "a", "result", DOT >>,
          should_retry |-> FALSE]
    ELSE IF reply.kind = "raise"
    THEN [success |-> FALSE, reason |-> << "Eval", "failed" >>, should_retry |-> TRUE]
    ELSE _parse_eval(reply.raw)

\* Evaluator.evaluate; reply is the engine's answer, used in the third tier
evaluate(tool_result, reply) ==
    IF HasErrorMarker(tool_result)
    THEN [success |-> FALSE, reason |-> tool_result, should_retry |-> TRUE]
    ELSE IF CharLen(tool_result) < EvalShortLen
    THEN [success |-> TRUE, reason |-> << "Tool", "returned", "a", "result", DOT >>,
          should_retry |-> FALSE]
    ELSE IF reply.kind = "raise"
    THEN [success |-> TRUE, reason |-> << "Eval", "skipped" >>, should_retry |-> FALSE]
    ELSE _parse_eval(reply.raw)

\* the third tier is reached: the engine is called
EvaluateCallsEngine(tool_result) ==
    ~HasErrorMarker(tool_result) /\ CharLen(tool_result) >= EvalShortLen

\* Every failed step is retried, whatever should_retry says.
RetryWantedOnFailure(er) == ~er.success

\* loop.py line 156
RetryWanted(er) == ~er.success /\ er.should_retry

(***************************************************************************)
(* agent/loop.py: AgentLoop.run                                            *)
(***************************************************************************)
\* _build_context: the goals of the three most recent tasks, newest first
\* (the vector memory holds nothing)
_build_context(tasks) ==
    IF tasks = << >> THEN << "(no", "prior", "context)" >>
    ELSE << "Recent", "tasks:" >>
         \o Flatten([i \in 1..Min(RecentTasksLimit, Len(tasks)) |->
                        << NL, "-", "[done]" >> \o tasks[Len(tasks) + 1 - i]])

\* the verdict variable before the first evaluation of a session
NoVerdict == [success |-> TRUE, reason |-> << >>, should_retry |-> FALSE]

\* "\n---\n".join(f"Step result {i+1}:\n{r}" ...)
Combined(results) ==
    Flatten([i \in DOMAIN results |->
                (IF i > 1 THEN << NL, "---", NL >> ELSE << >>)
                \o << "Step", "result", ToString(i) \o ":", NL >> \o results[i]])

\* loop.py line 176
HasIcs(files) == \E i \in DOMAIN files : files[i].type = "ics"

\* The check fires whenever no calendar file was produced.
IntegrityFiresIgnoringGate(input, files, confirmed) ==
    scheduling_requested(input) /\ ~HasIcs(files)

\* loop.py line 182
IntegrityFires(input, files, confirmed) ==
    scheduling_requested(input) /\ ~HasIcs(files) /\ ~confirmed

\* loop.py lines 209-212: the first five FREE: lines of the report, as bullets
FreeTimes(result) ==
    IF result.success /\ \E i \in DOMAIN result.data : result.data[i] = "FREE:"
    THEN << "-" >> \o Tail(FreeSlot)
    ELSE << >>

\* loop.py lines 183-225, when the check fires
IntegrityCheck(answer, list_result) ==
    With(RStrip(StripClaims(answer, Len(schedule_claims))), LAMBDA stripped :
        With(FreeTimes(list_result), LAMBDA free_times :
            IF free_times # << >> THEN stripped \o SlotQuestion(free_times)
            ELSE stripped \o GenericQuestion))

\* loop.py lines 230-233
RestoreFile(gf, entity_map) ==
    [k \in DOMAIN gf |-> IF k \in {"label", "to", "subject", "body"}
                         THEN restore(gf[k], entity_map) ELSE gf[k]]

\* loop.py lines 228-233: the records with their texts restored
RestoreFiles(files, entity_map) ==
    IF entity_map = << >> THEN files
    ELSE [i \in DOMAIN files |-> RestoreFile(files[i], entity_map)]

\* The first record of each type is kept.
DedupKeepFirst(files) ==
    SelectSeq([i \in DOMAIN files |->
                  IF \E j \in 1..(i - 1) : files[j].type = files[i].type
                  THEN [type |-> "dropped"] ELSE files[i]],
              LAMBDA gf : gf.type # "dropped")

\* loop.py lines 236-240: seen_types[ftype] = gf; list(seen_types.values()).
\* A type keeps the position of its first record and the value of its last.
Dedup(files0) ==
    With(files0, LAMBDA files :
        SelectSeq([i \in DOMAIN files |->
                      IF \E j \in 1..(i - 1) : files[j].type = files[i].type
                      THEN [type |-> "dropped"]
                      ELSE files[CHOOSE j \in DOMAIN files :
                                    /\ files[j].type = files[i].type
                                    /\ \A k \in (j + 1)..Len(files) :
                                          files[k].type # files[i].type]],
                  LAMBDA gf : gf.type # "dropped"))

\* The frame of one executor call: execute_step(step, conversation)
BeginStep(step, conv) ==
    /\ messages' = Append(conv, ExecutePrompt(step))
    /\ round_num' = 0
    /\ collected_files' = << >>
    /\ calls' = << >>
    /\ pc' = "exec"

\* loop.py lines 164-165 and the loop's next iteration
StepDone(text, conv) ==
    /\ step_results' = Append(step_results, text)
    /\ conversation' = _trim_conversation(conv)
    /\ result_text' = text
    /\ step_log' = Append(step_log, [execs |-> execs, verdict |-> eval_result'])
    /\ IF step_idx < Len(steps)
       THEN /\ step_idx' = step_idx + 1
            /\ attempt' = 1
            /\ execs' = 1
            /\ BeginStep(steps[step_idx + 1], _trim_conversation(conv))
       ELSE /\ pc' = "finish"
            /\ UNCHANGED << step_idx, attempt, execs, messages, round_num,
                            collected_files, calls >>

\* the retry's text is thrown away
RetryResultKeepsFirst(first, retry) == first

\* loop.py line 158: result_text is assigned again from the retry
RetryResult(first, retry) == retry

\* execute_step returns (text, messages, collected_files) to run
ReturnFromStep(text, msgs, files) ==
    /\ last_generated_files' = last_generated_files \o files
    /\ produced' = produced \o files
    /\ IF attempt = 1
       THEN /\ conversation' = msgs
            /\ result_text' = text
            /\ messages' = msgs
            /\ pc' = "eval"
            /\ UNCHANGED << step_results, step_idx, attempt, execs, step_log, eval_result,
                            round_num, collected_files, calls >>
       ELSE /\ eval_result' = eval_result
            /\ StepDone(RetryResult(result_text, text), msgs)

(***************************************************************************)
(* The state machine.                                                      *)
(***************************************************************************)
\* AgentLoop.__init__ and the module state of tools/privacy.py
AgentInit ==
    /\ pc = "idle"
    /\ turn = 0
    /\ nlp_active = "none"
    /\ privacy_enabled = TRUE
    /\ session_entity_map = << >>
    /\ conversation = << >>
    /\ last_redacted_input = << >>
    /\ last_generated_files = << >>
    /\ db_messages = << >>
    /\ db_tasks = << >>
    /\ time_confirmed = FALSE
    /\ user_input = << >>
    /\ safe_input = << >>
    /\ steps = << >>
    /\ step_idx = 0
    /\ attempt = 1
    /\ eval_result = NoVerdict
    /\ redact_engine = "none"
    /\ step_results = << >>
    /\ result_text = << >>
    /\ messages = << >>
    /\ round_num = 0
    /\ collected_files = << >>
    /\ final = << >>
    /\ synth = << >>
    /\ checked = << >>
    /\ probed = FALSE
    /\ restored_files = << >>
    /\ produced = << >>
    /\ sent = {}
    /\ calls = << >>
    /\ execs = 0
    /\ step_log = << >>
    /\ raised = "none"
    /\ last_fault = "none"
    /\ loads = 0

\* server.py at start-up: no request has arrived, _lock is free
ServerInit ==
    /\ lock = {}
    /\ req = << >>

\* server.py line 42 (_agent = None), no limiter built, no search sent
ProcessInit ==
    /\ _agent = 0
    /\ agents = << >>
    /\ clock = 0
    /\ issued = << >>

\* AgentLoop.__init__ and LinkupSearchTool.__init__ (_RateLimiter: _last = 0.0)
NewAgent == [privacy_enabled |-> TRUE, last |-> 0, turns |-> 0]

\* get_agent has built the agent, once
AgentCreated ==
    /\ _agent = 1
    /\ agents = << NewAgent >>
    /\ clock = 0
    /\ issued = << >>

\* no function is under test
NoTest ==
    /\ arg = [fn |-> "none"]
    /\ ret = [fn |-> "none"]

Init ==
    /\ AgentInit
    /\ ServerInit
    /\ ProcessInit
    /\ NoTest
    /\ engine_budget = MaxEngineCalls
    /\ fault_budget = MaxFaults

\* server.toggle_privacy, and chat()'s agent.privacy_enabled = privacy
SetPrivacy(value) ==
    /\ pc = "idle"
    /\ turn < MaxTurns
    /\ privacy_enabled # value
    /\ privacy_enabled' = value
    /\ UNCHANGED << pc, turn, nlp_active, session_entity_map, conversation,
                    last_redacted_input, last_generated_files, db_messages, db_tasks,
                    time_confirmed, user_input, safe_input, steps, step_idx, attempt,
                    eval_result, redact_engine, step_results, result_text, messages,
                    round_num, collected_files, final, synth, checked, probed, restored_files, produced,
                    sent, calls, execs, step_log, engine_budget, fault_budget, raised,
                    last_fault, loads >>

\* a store that forgets what it is given
add_message_dropped(rows, role, content) == rows

\* SQLiteStore.add_message: one more row of the conversations table
add_message(rows, role, content) == Append(rows, [role |-> role, content |-> content])

\* _process_attachments, for one file: f is [name, exists, readable, text]
AttachmentPart(f) ==
    IF ~f.exists THEN << "[File", "not", "found:", f.name \o "]" >>
    ELSE IF ~f.readable THEN << "[Could", "not", "read", f.name \o ":", "unreadable]" >>
    ELSE << "---", f.name, "---", NL >>
         \o (IF CharLen(f.text) > AttachmentLimit
             THEN Slice(f.text, AttachmentLimit) \o << NL, "[...truncated]" >>
             ELSE f.text)

RECURSIVE AttachmentPartsTo(_, _)
AttachmentPartsTo(files, n) ==
    IF n = 0 THEN << >>
    ELSE AttachmentPartsTo(files, n - 1) \o (IF n > 1 THEN << NL, NL >> ELSE << >>)
         \o AttachmentPart(files[n])

\* AgentLoop._process_attachments: "\n\n".join(parts)
_process_attachments(files) == AttachmentPartsTo(files, Len(files))

\* loop.py lines 103-107: the message with the context of its attachments
FullInput(msg, attachments) ==
    IF attachments # << >> /\ _process_attachments(attachments) # << >>
    THEN msg \o << NL, NL, "[Attached", "files", "context]", NL >>
         \o _process_attachments(attachments)
    ELSE msg

\* the list of the turn before is carried over
FilesCarriedOver == last_generated_files

\* loop.py line 100: self._last_generated_files = []
FilesAtStart == << >>

\* AgentLoop.run, from its entry to the first executor call (loop.py lines
\* 96-149): msg is the user's message, attachments the files sent with it
\* (each [name, exists, readable, text]), loaded what _load_presidio finds when
\* it is first asked, report the analyzer's outcome, reply the planner's.
\* When redact raises, run is left at line 110 with nothing but the reset of
\* line 100 done (and the histories of the turn empty).
StartTurn(msg, attachments, loaded, report, reply) ==
    /\ pc = "idle"
    /\ turn < MaxTurns
    /\ engine_budget > 0
    /\ \E nlp_ok \in {IF nlp_active = "none" THEN loaded ELSE nlp_active = "true"} :
       \E full_input \in {FullInput(msg, attachments)} :
       \E pr \in {redact(full_input, privacy_enabled, nlp_ok, report)} :
         /\ nlp_active' = IF privacy_enabled /\ ~IsBlank(full_input)
                          THEN (IF nlp_ok THEN "true" ELSE "false") ELSE nlp_active
         /\ loads' = IF privacy_enabled /\ ~IsBlank(full_input) /\ nlp_active = "none"
                     THEN loads + 1 ELSE loads
         /\ IF pr.raised
            THEN /\ raised' = "redact"
                 /\ last_fault' = "none"
                 /\ fault_budget' = fault_budget - 1
                 /\ final' = << >>
                 /\ synth' = << >>
                 /\ checked' = << >>
                 /\ probed' = FALSE
                 /\ restored_files' = << >>
                 /\ calls' = << >>
                 /\ step_log' = << >>
                 /\ UNCHANGED << pc, session_entity_map, conversation, last_redacted_input,
                                 db_messages, db_tasks, time_confirmed, safe_input, steps,
                                 step_idx, attempt, eval_result, redact_engine,
                                 step_results, result_text, messages, round_num,
                                 collected_files, sent, execs, engine_budget >>
            ELSE \E conv \in {_trim_conversation(Append(conversation,
                                                        Msg("user", pr.redacted_text)))} :
                 \E the_plan \in {plan(pr.redacted_text, reply)} :
                   /\ raised' = "none"
                   /\ last_fault' = IF PlannerFellBack(reply) THEN "planner" ELSE "none"
                   /\ session_entity_map' = MapUpdate(session_entity_map, pr.entity_map)
                   /\ redact_engine' = pr.engine
                   /\ last_redacted_input' = pr.redacted_text
                   /\ safe_input' = pr.redacted_text
                   /\ conversation' = conv
                   /\ sent' = {_build_context(db_tasks), pr.redacted_text}
                   /\ steps' = the_plan
                   /\ BeginStep(the_plan[1], conv)
                   /\ db_messages' = add_message(db_messages, "user", msg)
                   /\ engine_budget' = engine_budget - 1
                   /\ fault_budget' = fault_budget - (IF reply.kind = "raise" THEN 1 ELSE 0)
                   /\ db_tasks' = Append(db_tasks, msg)
                   /\ time_confirmed' = set_time_confirmed(time_confirmed,
                                                           _has_specific_time(msg))
                   /\ step_results' = << >>
                   /\ step_log' = << >>
                   /\ result_text' = << >>
                   /\ eval_result' = NoVerdict
                   /\ final' = << >>
                   /\ synth' = << >>
                   /\ checked' = << >>
                   /\ probed' = FALSE
                   /\ restored_files' = << >>
                   /\ step_idx' = 1
                   /\ attempt' = 1
                   /\ execs' = 1
    /\ turn' = turn + 1
    /\ last_generated_files' = FilesAtStart
    /\ produced' = << >>
    /\ user_input' = msg
    /\ UNCHANGED privacy_enabled

\* a loop that never runs out of rounds
RoundsExhaustedNever(n) == FALSE

\* for round_num in range(max_tool_rounds) has run out
RoundsExhausted(n) == n >= max_tool_rounds

\* One pass of Executor.execute_step's loop (executor.py lines 53-113): the
\* engine is called and either fails, asks for tools, or answers; when the
\* rounds are used up the step returns without a call.
ExecRound(reply, envs) ==
    /\ pc = "exec"
    /\ UNCHANGED << turn, nlp_active, privacy_enabled, session_entity_map,
                    last_redacted_input, db_messages, db_tasks, time_confirmed,
                    user_input, safe_input, steps, redact_engine, final, synth, checked,
                    probed, restored_files, raised, loads >>
    /\ last_fault' = IF ~RoundsExhausted(round_num) /\ reply.kind = "raise"
                     THEN "executor" ELSE "none"
    /\ IF RoundsExhausted(round_num)
       THEN /\ UNCHANGED << sent, engine_budget, fault_budget >>
            /\ ReturnFromStep(MaxRoundsText,
                              Append(messages, Msg("assistant", MaxRoundsText)),
                              collected_files)
       ELSE /\ engine_budget > 0
            /\ engine_budget' = engine_budget - 1
            /\ sent' = ChatTexts(messages)
            /\ CASE reply.kind = "raise" ->
                      /\ fault_budget' = fault_budget - 1
                      /\ ReturnFromStep(LlmError,
                                        Append(messages, Msg("assistant", LlmError)),
                                        collected_files)
                 [] reply.kind = "tools" ->
                      \E st \in {ProcessCalls([messages |-> Append(messages,
                                                  [role |-> "assistant",
                                                   content |-> reply.content,
                                                   tool_calls |-> reply.tool_calls]),
                                               files |-> collected_files,
                                               log |-> << >>, now |-> 0],
                                              reply.tool_calls, envs, session_entity_map,
                                              time_confirmed, Len(reply.tool_calls))} :
                         /\ fault_budget' = fault_budget - Faults(envs)
                         /\ messages' = st.messages
                         /\ collected_files' = st.files
                         /\ calls' = st.log
                         /\ round_num' = round_num + 1
                         /\ UNCHANGED << pc, conversation, last_generated_files, produced,
                                         step_idx, attempt, eval_result, step_results,
                                         result_text, execs, step_log >>
                 [] reply.kind = "text" ->
                      /\ UNCHANGED fault_budget
                      /\ ReturnFromStep(reply.content,
                                        Append(messages, Msg("assistant", reply.content)),
                                        collected_files)

\* loop.py lines 155-165: the evaluation of the first attempt, then the retry
\* or the end of the step
Evaluate(reply) ==
    /\ pc = "eval"
    /\ \E tool_result \in {Slice(result_text, EvalSlice)} :
       \E verdict \in {evaluate(tool_result, reply)} :
         /\ IF EvaluateCallsEngine(tool_result)
            THEN /\ engine_budget > 0
                 /\ engine_budget' = engine_budget - 1
                 /\ fault_budget' = fault_budget - (IF reply.kind = "raise" THEN 1 ELSE 0)
                 /\ sent' = {steps[step_idx], tool_result}
            ELSE UNCHANGED << engine_budget, fault_budget, sent >>
         /\ last_fault' = IF EvaluateCallsEngine(tool_result) /\ EvaluatorFellBack(reply)
                          THEN "evaluator" ELSE "none"
         /\ eval_result' = verdict
         /\ IF RetryWanted(verdict)
            THEN /\ attempt' = 2
                 /\ execs' = execs + 1
                 /\ BeginStep(RetryStep(steps[step_idx], verdict.reason), conversation)
                 /\ UNCHANGED << conversation, step_results, result_text, step_idx,
                                 step_log >>
            ELSE StepDone(result_text, conversation)
    /\ UNCHANGED << turn, nlp_active, privacy_enabled, session_entity_map,
                    last_redacted_input, last_generated_files, db_messages, db_tasks,
                    time_confirmed, user_input, safe_input, steps, redact_engine,
                    final, synth, checked, probed, restored_files, produced, raised, loads >>

\* every plan is synthesized
NeedsSynthesisAlways(the_plan) == TRUE

\* loop.py line 168: if len(steps) > 1
NeedsSynthesis(the_plan) == Len(the_plan) > 1

\* loop.py lines 167-246: synthesis, integrity check, restore, dedup, persist.
\* reply is the engine's synthesis (asked for when the plan had several
\* steps), calendar what list_events meets if the integrity check asks it.
\* events_tool.run() is called outside any try (line 207): when it raises,
\* run is left there.
Finish(reply, calendar) ==
    /\ pc = "finish"
    /\ \E combined \in {Combined(step_results)} :
       \E answer \in {IF NeedsSynthesis(steps)
                      THEN (IF reply.kind = "raise" THEN combined ELSE reply.content)
                      ELSE step_results[1]} :
       \E fires \in {IntegrityFires(user_input, last_generated_files, time_confirmed)} :
       \E list_result \in {IF fires THEN ListEventsRun(calendar) ELSE Ok(<< >>, << >>)} :
       \E faults \in {(IF NeedsSynthesis(steps) /\ reply.kind = "raise" THEN 1 ELSE 0)
                      + (IF IsRaise(list_result) THEN 1 ELSE 0)} :
         /\ faults <= fault_budget
         /\ fault_budget' = fault_budget - faults
         /\ IF NeedsSynthesis(steps)
            THEN /\ engine_budget > 0
                 /\ engine_budget' = engine_budget - 1
                 /\ sent' = {safe_input, combined}
            ELSE UNCHANGED << engine_budget, sent >>
         /\ last_fault' = IF NeedsSynthesis(steps) /\ reply.kind = "raise" THEN "synthesis"
                          ELSE "none"
         /\ synth' = answer
         /\ probed' = fires
         /\ IF IsRaise(list_result)
            THEN /\ raised' = "list_events"
                 /\ UNCHANGED << checked, final, db_messages, last_generated_files,
                                 restored_files >>
            ELSE \E after \in {IF fires THEN IntegrityCheck(answer, list_result)
                               ELSE answer} :
                 \E restored \in {restore(after, session_entity_map)} :
                   /\ checked' = after
                   /\ final' = restored
                   /\ db_messages' = add_message(db_messages, "assistant", restored)
                   /\ last_generated_files' =
                          Dedup(RestoreFiles(last_generated_files, session_entity_map))
                   /\ restored_files' = IF session_entity_map = << >> THEN << >>
                                        ELSE last_generated_files
                   /\ UNCHANGED raised
    /\ pc' = "idle"
    /\ UNCHANGED << turn, nlp_active, privacy_enabled, session_entity_map, conversation,
                    last_redacted_input, db_tasks, time_confirmed, user_input,
                    safe_input, steps, step_idx, attempt, eval_result, redact_engine,
                    step_results, result_text, messages, round_num, collected_files,
                    produced, calls, execs, step_log, loads >>

server_vars == << lock, req >>
test_vars == << arg, ret >>
startup_vars == << _agent, agents, clock, issued >>

Next ==
    \/ \E value \in BOOLEAN : SetPrivacy(value) /\ UNCHANGED << server_vars, test_vars, startup_vars >>
    \/ \E msg \in UserMessages, loaded \in BOOLEAN :
       \E attachments \in AttachmentLists(msg) :
         \E report \in (IF privacy_enabled /\ (IF nlp_active = "none" THEN loaded
                                                ELSE nlp_active = "true")
                        THEN AnalyzerReports(AnalyzerResults(FullInput(msg, attachments)),
                                             fault_budget)
                        ELSE AnalyzerReports({{}}, 0)) :
           \E reply \in PlannerReplies(fault_budget) :
             StartTurn(msg, attachments, loaded, report, reply)
             /\ UNCHANGED << server_vars, test_vars, startup_vars >>
    \/ \E reply \in ExecutorReplies(fault_budget) :
         \E envs \in (IF reply.kind = "tools"
                      THEN EnvChoices(reply.tool_calls, fault_budget) ELSE {<< >>}) :
           ExecRound(reply, envs) /\ UNCHANGED << server_vars, test_vars, startup_vars >>
    \/ \E reply \in EvaluatorReplies(fault_budget) :
         Evaluate(reply) /\ UNCHANGED << server_vars, test_vars, startup_vars >>
    \/ \E reply \in SynthesisReplies(fault_budget), calendar \in CalendarOutcomes(fault_budget) :
         Finish(reply, calendar) /\ UNCHANGED << server_vars, test_vars, startup_vars >>

Spec == Init /\ [][Next]_vars

(***************************************************************************)
(* The library functions on their own: redact, restore and Planner.plan    *)
(* are called once on arguments drawn from the sets below.                 *)
(***************************************************************************)
NoCall == [fn |-> "none"]

\* texts handed to redact: a repeated address, a telephone number, a name in
\* lower case, a capitalised name next to a date, several types together,
\* and an empty line
RedactTexts ==
    { << "mail", "bob@x.io", "and", "cc", "bob@x.io" >>,
      << "ring", "555-123-4567", "now" >>,
      << "email", "karthik", "my", "cfo", "about", "lunch" >>,
      << "Schedule", "a", "meeting", "with", "Karthik", "Tomorrow", "at", "3pm" >>,
      << "mail", "amy@y.io", "from", "10.0.0.1", "and", "cc", "bob@x.io" >>,
      << "remind", "Karthik", "to", "ring", "555-123-4567", "today" >>,
      << NL >> }

RedactArgs ==
    UNION {{[fn |-> "redact", text |-> t, enabled |-> e, nlp_ok |-> n, report |-> rp] :
              rp \in (IF e /\ n /\ ~IsBlank(t)
                      THEN AnalyzerReports(AnalyzerResults(t) \cup OverlappingResults(t), 1)
                      ELSE AnalyzerReports({{}}, 0))} :
             t \in RedactTexts, e \in BOOLEAN, n \in BOOLEAN}

\* a step the engine may plan although the prompt forbids it
EventStep == << "Create", "event", "with", P1, "at", "3pm" >>

\* replies of the engine to the planning prompt
PlanTestReplies ==
    {[kind |-> "raise"]}
    \cup {[kind |-> "text", raw |-> r] :
            r \in { Prose,
                    JsonArray(<< >>),
                    JsonArray(SubSeq(PlanSteps, 1, 1)),
                    JsonArray(SubSeq(PlanSteps, 1, 2)),
                    JsonArray(PlanSteps),
                    << Lex("fence") >> \o JsonArray(PlanSteps) \o << Lex("fence") >>,
                    << Lex("fence") >> \o JsonArray(SubSeq(PlanSteps, 2, 2)),
                    Prose \o JsonArray(SubSeq(PlanSteps, 2, 3)) \o Prose,
                    << Lex("["), JStr(PlanSteps[1]), Lex(","), Lex("num"), Lex("]") >>,
                    << Lex("["), JStr(PlanSteps[1]) >>,
                    << Lex("]"), Prose[1], Lex("[") >>,
                    JsonArray(SubSeq(PlanSteps, 1, 1)) \o JsonArray(SubSeq(PlanSteps, 2, 2)),
                    JsonArray(<< PlanSteps[1], EventStep >>) }}

PlanArgs == {[fn |-> "plan", input |-> m, reply |-> r] : m \in UserMessages, r \in PlanTestReplies}

\* originals of a message with eleven names
Originals ==
    << << "amy" >>, << "bob" >>, << "cal" >>, << "dan" >>, << "eve" >>, << "fay" >>,
       << "gus" >>, << "hal" >>, << "ian" >>, << "jon" >>, << "kim", "lee" >> >>

\* the entity map redaction builds for n names: <PERSON_1> .. <PERSON_n>
\* in the order of their creation
RedactionMap(n) ==
    [i \in 1..n |-> [ph |-> Placeholder("PERSON", i), val |-> Originals[i]]]

\* maps redaction would not build: an original that is itself a placeholder
\* of the map
NestedMaps ==
    { << [ph |-> Placeholder("PERSON", 1), val |-> << Placeholder("PERSON", 2) >>],
         [ph |-> Placeholder("PERSON", 2), val |-> << "bob" >>] >>,
      << [ph |-> Placeholder("PERSON", 2), val |-> << "bob" >>],
         [ph |-> Placeholder("PERSON", 1), val |-> << Placeholder("PERSON", 2) >>] >> }

\* texts handed to restore: placeholders as words, inside words, repeated,
\* and none at all
RestoreTexts ==
    { << "Hi", Placeholder("PERSON", 1), "and", Placeholder("PERSON", 10) >>,
      << "(" \o Placeholder("PERSON", 1) \o ")", Placeholder("PERSON", 1),
         Placeholder("PERSON", 10) \o "s" >>,
      << Placeholder("PERSON", 2), "met", Placeholder("PERSON", 2), "and",
         Placeholder("PERSON", 11) >>,
      << Placeholder("PERSON", 11), Placeholder("PERSON", 1), Placeholder("PERSON", 3) >>,
      << "no", "names", "here" >>,
      << "amy", "wrote", "to", "bob" >> }

\* orders in which the entries of a map may be applied
Orders == {"same", "reverse", "rotate"}

\* the entries of m in another order
Permute(m, order) ==
    CASE order = "same" -> m
      [] order = "reverse" -> [i \in DOMAIN m |-> m[Len(m) + 1 - i]]
      [] order = "rotate" -> [i \in DOMAIN m |-> m[(i % Len(m)) + 1]]

\* texts handed to the name extraction: cue words followed by stop words
\* only, by company names, by names that occur twice, by names of two words
NameTexts ==
    { << "email", "to", "schedule", "the", "meeting" >>,
      << "email", "to", "Acme", "Corp", "about", "the", "deal" >>,
      << "email", "to", "Globex", "Corp", "about", "the", "deal" >>,
      << "email", "zenith", "labs", "today" >>,
      << "email", "zenith", "about", "the", "company" >>,
      << "email", "karthik", "my", "cfo", "about", "lunch" >>,
      << "email", "karthik", "and", "remind", "karthik", "about", "lunch" >>,
      << "remind", "Karthik", "to", "email", "karthik", "rao" >>,
      << "remind", "karthik", "to", "email", "karthik" >>,
      << "alex", ",", "my", "cfo", "and", "karthik", "who", "is", "the", "cfo" >>,
      << "schedule", "with", "the", "alex", "rao", "today" >>,
      << "to", "a" >> }

NameArgs == {[fn |-> "names", text |-> t] : t \in NameTexts}

RestoreArgs ==
    {[fn |-> "restore", text |-> t, map |-> m, order |-> o, by_redaction |-> TRUE] :
        t \in RestoreTexts, m \in {RedactionMap(n) : n \in {1, 3, 10, 11}}, o \in Orders}
    \cup {[fn |-> "restore", text |-> t, map |-> m, order |-> "same",
           by_redaction |-> FALSE] : t \in RestoreTexts, m \in NestedMaps}

\* step results handed to evaluate: short, long, with and without the
\* error marker
EvalTestResults ==
    { << >>,
      << "Event", "created", "successfully", DOT >>,
      << "[ERROR]", "Unknown", "tool" >>,
      << "tool", "said", "[ERROR]", "OSError" >>,
      << "[LLM", "error:", "timeout" >>,
      << LONG >>,
      << LONG, "[ERROR]", "OSError" >> }

\* replies of the engine to the evaluation prompt, each with whether the
\* text from its first "{" to its last "}" is a JSON object
EvalTestReplies ==
    {[reply |-> [kind |-> "raise"], parsable |-> FALSE]}
    \cup {[reply |-> [kind |-> "text", raw |-> JsonVerdict(a, b)], parsable |-> TRUE] :
            a \in BOOLEAN, b \in BOOLEAN}
    \cup {[reply |-> [kind |-> "text", raw |-> r], parsable |-> TRUE] :
            r \in { << Lex("fence") >> \o JsonVerdict(FALSE, TRUE) \o << Lex("fence") >>,
                    Prose \o JsonVerdict(FALSE, TRUE) \o Prose,
                    << Lex("{"), Lex("}") >>,
                    << Lex("{"), JPair("should_retry", "true"), Lex("}") >>,
                    << Lex("{"), JPair("success", "str"), Lex("}") >> }}
    \cup {[reply |-> [kind |-> "text", raw |-> r], parsable |-> FALSE] :
            r \in { Prose,
                    << >>,
                    << Lex("{"), JPair("success", "false") >>,
                    << Lex("}"), Prose[1], Lex("{") >>,
                    << Lex("{"), Prose[1], Lex("}") >>,
                    JsonVerdict(FALSE, TRUE) \o JsonVerdict(FALSE, TRUE),
                    JsonArray(PlanSteps) }}

EvalArgs ==
    {[fn |-> "evaluate", tool_result |-> t, reply |-> r.reply, parsable |-> r.parsable] :
        t \in EvalTestResults, r \in EvalTestReplies}

InitFn ==
    /\ AgentInit
    /\ ServerInit
    /\ ProcessInit
    /\ engine_budget = 0
    /\ fault_budget = 0
    /\ arg \in RedactArgs \cup PlanArgs \cup RestoreArgs \cup EvalArgs \cup NameArgs
    /\ ret = NoCall

agent_vars ==
    << pc, turn, nlp_active, privacy_enabled, session_entity_map, conversation,
       last_redacted_input, last_generated_files, db_messages, db_tasks, time_confirmed,
       user_input, safe_input, steps, step_idx, attempt, eval_result, redact_engine,
       step_results, result_text, messages, round_num, collected_files, final, synth,
       checked, probed, restored_files, produced, sent, calls, execs, step_log, engine_budget,
       fault_budget, raised, last_fault, loads >>

\* privacy.redact(text, enabled)
CallRedact ==
    /\ arg.fn = "redact"
    /\ ret = NoCall
    /\ ret' = [fn |-> "redact", out |-> redact(arg.text, arg.enabled, arg.nlp_ok, arg.report)]
    /\ UNCHANGED << agent_vars, server_vars, startup_vars, arg >>

\* privacy.restore(result.redacted_text, result.entity_map)
CallRestore ==
    /\ ret.fn = "redact"
    /\ ~ret.out.raised
    /\ ret' = [fn |-> "restore", of |-> ret.out,
               out |-> restore(ret.out.redacted_text, ret.out.entity_map)]
    /\ UNCHANGED << agent_vars, server_vars, startup_vars, arg >>

\* Planner.plan(user_input, context)
CallPlan ==
    /\ arg.fn = "plan"
    /\ ret = NoCall
    /\ ret' = [fn |-> "plan", out |-> plan(arg.input, arg.reply)]
    /\ UNCHANGED << agent_vars, server_vars, startup_vars, arg >>

\* privacy.restore(text, entity_map), and the same call with the entries of
\* the map in another order
CallRestoreOn ==
    /\ arg.fn = "restore"
    /\ ret = NoCall
    /\ ret' = [fn |-> "restored", out |-> restore(arg.text, arg.map),
               permuted |-> restore(arg.text, Permute(arg.map, arg.order))]
    /\ UNCHANGED << agent_vars, server_vars, startup_vars, arg >>

\* privacy.restore(restore(text, entity_map), entity_map)
CallRestoreAgain ==
    /\ ret.fn = "restored"
    /\ ret' = [fn |-> "restored_twice", first |-> ret.out,
               out |-> restore(ret.out, arg.map)]
    /\ UNCHANGED << agent_vars, server_vars, startup_vars, arg >>

\* AgentLoop.run lines 110-116 on the result of redact: a map that is not
\* empty is merged into the session map
CallMerge ==
    /\ ret.fn = "redact"
    /\ ~ret.out.raised
    /\ session_entity_map' = IF ret.out.entity_map # << >>
                             THEN MapUpdate(session_entity_map, ret.out.entity_map)
                             ELSE session_entity_map
    /\ last_redacted_input' = ret.out.redacted_text
    /\ redact_engine' = ret.out.engine
    /\ ret' = [fn |-> "merged", out |-> ret.out]
    /\ UNCHANGED << pc, turn, nlp_active, privacy_enabled, conversation,
                    last_generated_files, db_messages, db_tasks, time_confirmed,
                    user_input, safe_input, steps, step_idx, attempt, eval_result,
                    step_results, result_text, messages, round_num, collected_files,
                    final, synth, checked, probed, restored_files, produced, sent, calls, execs, step_log,
                    engine_budget, fault_budget, raised, last_fault, loads, server_vars,
                    startup_vars, arg >>

\* Evaluator.evaluate(step, tool_name, tool_result); engine_calls counts the
\* client.chat calls it makes
CallEvaluate ==
    /\ arg.fn = "evaluate"
    /\ ret = NoCall
    /\ ret' = [fn |-> "evaluate", out |-> evaluate(arg.tool_result, arg.reply),
               engine_calls |-> IF EvaluateCallsEngine(arg.tool_result) THEN 1 ELSE 0]
    /\ UNCHANGED << agent_vars, server_vars, startup_vars, arg >>

\* privacy._extract_name_candidates(text) and privacy._regex_redact(text)
CallExtract ==
    /\ arg.fn = "names"
    /\ ret = NoCall
    /\ ret' = [fn |-> "names", out |-> _extract_name_candidates(arg.text),
               redacted |-> _regex_redact(arg.text)]
    /\ UNCHANGED << agent_vars, server_vars, startup_vars, arg >>

NextFn ==
    \/ CallRedact
    \/ CallRestore
    \/ CallPlan
    \/ CallRestoreOn
    \/ CallRestoreAgain
    \/ CallMerge
    \/ CallEvaluate
    \/ CallExtract

SpecFn == InitFn /\ [][NextFn]_vars

(***************************************************************************)
(* One turn with an engine budget that lets execute_step use up all its    *)
(* rounds: a one-step plan whose step, and whose retry, may go through     *)
(* max_tool_rounds rounds of tool invocations.                             *)
(***************************************************************************)
InitExec ==
    /\ AgentInit
    /\ ServerInit
    /\ ProcessInit
    /\ NoTest
    /\ engine_budget = ExecEngineCalls
    /\ fault_budget = MaxFaults

\* replies of one executor round: a final text, a failed step, tool
\* invocations (a draft only in the first round of a step), or an engine
\* failure
ExecTestReplies(faults) ==
    {r \in ExecutorReplies(faults) :
        \/ r.kind = "raise"
        \/ r.kind = "text" /\ r.content \in {<< "When", "works", "for", "you?" >>,
                                              << "[ERROR]", "could", "not", "finish" >>}
        \/ r.kind = "tools" /\ r.tool_calls \in {<< ListEventsCall >>,
                                                  << WebResearchCall, UnknownCall >>}
        \/ r.kind = "tools" /\ r.tool_calls = << DraftReplyCall >>
              /\ round_num = 0 /\ turn = 1}

NextExec ==
    \/ /\ turn = 0
       /\ \E msg \in {<< "schedule", "a", "meeting", "with", "alex" >>} :
            StartTurn(msg, << >>, FALSE, [ok |-> TRUE, results |-> {}],
                      [kind |-> "text", raw |-> Prose])
       /\ UNCHANGED << server_vars, test_vars, startup_vars >>
    \/ \E reply \in ExecTestReplies(fault_budget) :
         \E envs \in (IF reply.kind = "tools"
                      THEN EnvChoices(reply.tool_calls, fault_budget) ELSE {<< >>}) :
           ExecRound(reply, envs) /\ UNCHANGED << server_vars, test_vars, startup_vars >>
    \/ \E reply \in EvaluatorReplies(fault_budget) :
         Evaluate(reply) /\ UNCHANGED << server_vars, test_vars, startup_vars >>
    \/ \E reply \in SynthesisReplies(0), calendar \in CalendarStates :
         Finish(reply, calendar) /\ UNCHANGED << server_vars, test_vars, startup_vars >>

SpecExec == InitExec /\ [][NextExec]_vars

(***************************************************************************)
(* The server: requests arrive on threads of their own (app.run serves     *)
(* each request on a new thread), every handler is a sequence of steps     *)
(* that interleave with the steps of the other handlers.  req[r].pc is the *)
(* position of request r in its handler.                                   *)
(***************************************************************************)
\* the variables that only AgentLoop.run writes
run_vars ==
    << pc, turn, session_entity_map, conversation, last_redacted_input,
       last_generated_files, db_messages, db_tasks, time_confirmed, user_input,
       safe_input, steps, step_idx, attempt, eval_result, redact_engine, step_results,
       result_text, messages, round_num, collected_files, final, synth, checked, probed, restored_files,
       produced, sent, calls, execs, step_log, engine_budget, fault_budget, raised,
       last_fault >>

\* a POST /api/chat with its message and its privacy field
ChatRequest(m, p) ==
    [kind |-> "chat", pc |-> "recv", message |-> m, privacy |-> p, turn |-> 0,
     ran_privacy |-> p, status |-> 0, ai_view |-> << >>, generated_files |-> << >>,
     read_turn |-> 0, engine |-> "none"]

\* the chat requests the clients send
ChatRequests ==
    { ChatRequest(<< "email", "karthik", "my", "cfo", "about", "lunch" >>, TRUE),
      ChatRequest(<< "schedule", "a", "meeting", "with", "alex" >>, FALSE) }

\* GET /api/privacy
PrivacyRequests ==
    {[kind |-> "get_privacy", pc |-> "recv", message |-> << >>, privacy |-> TRUE,
      turn |-> 0, ran_privacy |-> TRUE, status |-> 0, ai_view |-> << >>,
      generated_files |-> << >>, read_turn |-> 0, engine |-> "none"]}

InitServer ==
    /\ AgentInit
    /\ ServerInit
    /\ AgentCreated
    /\ NoTest
    /\ engine_budget = ServerEngineCalls
    /\ fault_budget = 0

\* a request reaches its handler
Arrive(r0) ==
    /\ Len(req) < MaxRequests
    /\ req' = Append(req, r0)
    /\ UNCHANGED << lock, agent_vars >>

\* toggle_privacy (server.py lines 172-179): no lock is taken
TogglePrivacy(value) ==
    /\ privacy_enabled # value
    /\ privacy_enabled' = value
    /\ UNCHANGED << run_vars, nlp_active, loads, server_vars >>

\* chat, line 111: agent.privacy_enabled = privacy, before the lock
ChatSetPrivacy(r) ==
    /\ req[r].kind = "chat"
    /\ req[r].pc = "recv"
    /\ privacy_enabled' = req[r].privacy
    /\ req' = [req EXCEPT ![r].pc = "wait"]
    /\ UNCHANGED << run_vars, nlp_active, loads, lock >>

\* a lock nobody waits for
LockFreeAlways(l) == TRUE

\* threading.Lock: acquire blocks while another thread holds the lock
LockFree(l) == l = {}

\* chat, line 113: with _lock
ChatAcquire(r) ==
    /\ req[r].kind = "chat"
    /\ req[r].pc = "wait"
    /\ LockFree(lock)
    /\ lock' = lock \cup {r}
    /\ req' = [req EXCEPT ![r].pc = "locked"]
    /\ UNCHANGED agent_vars

\* chat, line 115: agent.run(message) is entered; the request's turn is the
\* one this call opens, and it runs under the flag as it is now
ChatRun(r, loaded, report, reply) ==
    /\ req[r].kind = "chat"
    /\ req[r].pc = "locked"
    /\ StartTurn(req[r].message, << >>, loaded, report, reply)
    /\ req' = [req EXCEPT ![r].pc = "run", ![r].turn = turn + 1,
                          ![r].ran_privacy = privacy_enabled]
    /\ UNCHANGED lock

\* chat, lines 117-128: run has returned (or raised); the response is built
\* from the agent's fields and the lock is released
ChatRespond(r) ==
    /\ req[r].kind = "chat"
    /\ req[r].pc = "run"
    /\ pc = "idle"
    /\ req' = [req EXCEPT ![r].pc = "done",
                          ![r].status = IF raised = "none" THEN 200 ELSE 500,
                          ![r].ai_view = IF raised = "none" THEN last_redacted_input
                                         ELSE << >>,
                          ![r].generated_files = IF raised = "none"
                                                 THEN last_generated_files ELSE << >>,
                          ![r].read_turn = turn]
    /\ lock' = lock \ {r}
    /\ UNCHANGED agent_vars

\* get_privacy, line 188, and _load_presidio line 45: the cached verdict is
\* returned if there is one, else the load begins
LoadCheck(r) ==
    /\ req[r].kind = "get_privacy"
    /\ req[r].pc = "recv"
    /\ req' = IF nlp_active # "none"
              THEN [req EXCEPT ![r].pc = "done", ![r].status = 200,
                               ![r].engine = nlp_active]
              ELSE [req EXCEPT ![r].pc = "loading"]
    /\ UNCHANGED << lock, agent_vars >>

\* _load_presidio lines 46-74: the backend is built and tested, and the
\* verdict is stored without looking at _nlp_active again
LoadFinish(r, loaded) ==
    /\ req[r].kind = "get_privacy"
    /\ req[r].pc = "loading"
    /\ nlp_active' = IF loaded THEN "true" ELSE "false"
    /\ loads' = loads + 1
    /\ req' = [req EXCEPT ![r].pc = "done", ![r].status = 200,
                          ![r].engine = IF loaded THEN "true" ELSE "false"]
    /\ UNCHANGED << run_vars, privacy_enabled, lock >>

\* replies of one executor round while the server is under test
ServerReplies ==
    {r \in ExecutorReplies(0) :
        \/ r.kind = "text" /\ r.content = << "When", "works", "for", "you?" >>
        \/ r.kind = "tools" /\ r.tool_calls = << CreateReminderCall, CreateEventCall >>
        \/ r.kind = "tools" /\ r.tool_calls = << DraftReplyCall >>
              /\ round_num = 0 /\ turn = 1}

NextServer ==
    \/ \E r0 \in ChatRequests \cup PrivacyRequests : Arrive(r0) /\ UNCHANGED << test_vars, startup_vars >>
    \/ \E value \in BOOLEAN : TogglePrivacy(value) /\ UNCHANGED << test_vars, startup_vars >>
    \/ \E r \in DOMAIN req : ChatSetPrivacy(r) /\ UNCHANGED << test_vars, startup_vars >>
    \/ \E r \in DOMAIN req : ChatAcquire(r) /\ UNCHANGED << test_vars, startup_vars >>
    \/ \E r \in DOMAIN req, loaded \in BOOLEAN :
         ChatRun(r, loaded, [ok |-> TRUE, results |-> {}], [kind |-> "text", raw |-> Prose])
         /\ UNCHANGED << test_vars, startup_vars >>
    \/ \E reply \in ServerReplies :
         \E envs \in (IF reply.kind = "tools"
                      THEN EnvChoices(reply.tool_calls, 0) ELSE {<< >>}) :
           ExecRound(reply, envs) /\ UNCHANGED << server_vars, test_vars, startup_vars >>
    \/ \E reply \in {[kind |-> "text", raw |-> JsonVerdict(TRUE, FALSE)]} :
         Evaluate(reply) /\ UNCHANGED << server_vars, test_vars, startup_vars >>
    \/ \E reply \in SynthesisReplies(0), calendar \in {"empty"} :
         Finish(reply, calendar) /\ UNCHANGED << server_vars, test_vars, startup_vars >>
    \/ \E r \in DOMAIN req : ChatRespond(r) /\ UNCHANGED << test_vars, startup_vars >>
    \/ \E r \in DOMAIN req : LoadCheck(r) /\ UNCHANGED << test_vars, startup_vars >>
    \/ \E r \in DOMAIN req, loaded \in BOOLEAN : LoadFinish(r, loaded) /\ UNCHANGED << test_vars, startup_vars >>

SpecServer == InitServer /\ [][NextServer]_vars

(***************************************************************************)
(* server.py: get_agent, and linkup_client._RateLimiter.  The requests     *)
(* that reach the server before an agent exists, each on its own thread.   *)
(***************************************************************************)
\* a request of the first requests: agent is the instance get_agent gave it
\* (0: none yet), searches the web searches its run has made
StartupRequests ==
    { [kind |-> "chat", pc |-> "recv", privacy |-> TRUE, agent |-> 0, searches |-> 0],
      [kind |-> "toggle", pc |-> "recv", privacy |-> FALSE, agent |-> 0, searches |-> 0] }

InitStartup ==
    /\ AgentInit
    /\ ServerInit
    /\ ProcessInit
    /\ NoTest
    /\ engine_budget = 0
    /\ fault_budget = 0

\* get_agent, line 48: if _agent is None
GetAgentCheck(r) ==
    /\ req[r].pc = "recv"
    /\ req' = [req EXCEPT ![r].pc = IF _agent = 0 THEN "create" ELSE "return"]
    /\ UNCHANGED << lock, agent_vars, startup_vars >>

\* get_agent, lines 49-71: the registry with its LinkupSearchTool and the
\* AgentLoop are built and the global is assigned
GetAgentCreate(r) ==
    /\ req[r].pc = "create"
    /\ agents' = Append(agents, NewAgent)
    /\ _agent' = Len(agents) + 1
    /\ req' = [req EXCEPT ![r].pc = "return"]
    /\ UNCHANGED << lock, agent_vars, clock, issued >>

\* get_agent, line 72: return _agent
GetAgentReturn(r) ==
    /\ req[r].pc = "return"
    /\ req' = [req EXCEPT ![r].pc = "have", ![r].agent = _agent]
    /\ UNCHANGED << lock, agent_vars, startup_vars >>

\* chat line 111 and toggle_privacy line 178: agent.privacy_enabled = ...,
\* on the instance get_agent returned, without the lock
AssignPrivacy(r) ==
    /\ req[r].pc = "have"
    /\ agents' = [agents EXCEPT ![req[r].agent].privacy_enabled = req[r].privacy]
    /\ req' = [req EXCEPT ![r].pc = IF req[r].kind = "chat" THEN "wait" ELSE "done"]
    /\ UNCHANGED << lock, agent_vars, _agent, clock, issued >>

\* _RateLimiter.wait (linkup_client.py lines 29-34) called at time t on a
\* limiter whose _last is last: the time it returns at, when sleep takes
\* `over` ticks longer than asked
LimiterWait(last, t, over) ==
    IF t - last < _interval THEN t + (_interval - (t - last)) + over ELSE t

\* LinkupSearchTool.run lines 113-116, in a step of agent.run: the limiter
\* of the instance's own tool is waited for, then the search is sent
Search(r, over) ==
    /\ req[r].kind = "chat"
    /\ req[r].pc = "locked"
    /\ req[r].searches < MaxSearches
    /\ \E t \in {LimiterWait(agents[req[r].agent].last, clock, over)} :
         /\ t <= MaxTime
         /\ clock' = t
         /\ agents' = [agents EXCEPT ![req[r].agent].last = t]
         /\ issued' = Append(issued, [at |-> t, by |-> req[r].agent])
    /\ req' = [req EXCEPT ![r].searches = req[r].searches + 1]
    /\ UNCHANGED << lock, agent_vars, _agent >>

\* chat, lines 115-128: agent.run returns, the response is built and the
\* lock released
Respond(r) ==
    /\ req[r].kind = "chat"
    /\ req[r].pc = "locked"
    /\ agents' = [agents EXCEPT ![req[r].agent].turns = agents[req[r].agent].turns + 1]
    /\ req' = [req EXCEPT ![r].pc = "done"]
    /\ lock' = lock \ {r}
    /\ UNCHANGED << agent_vars, _agent, clock, issued >>

\* time passes
Tick ==
    /\ clock < MaxTime
    /\ clock' = clock + 1
    /\ UNCHANGED << agent_vars, server_vars, _agent, agents, issued >>

NextStartup ==
    \/ \E r0 \in StartupRequests : Arrive(r0) /\ UNCHANGED << test_vars, startup_vars >>
    \/ \E r \in DOMAIN req : GetAgentCheck(r) /\ UNCHANGED test_vars
    \/ \E r \in DOMAIN req : GetAgentCreate(r) /\ UNCHANGED test_vars
    \/ \E r \in DOMAIN req : GetAgentReturn(r) /\ UNCHANGED test_vars
    \/ \E r \in DOMAIN req : AssignPrivacy(r) /\ UNCHANGED test_vars
    \/ \E r \in DOMAIN req : ChatAcquire(r) /\ UNCHANGED << test_vars, startup_vars >>
    \/ \E r \in DOMAIN req, over \in {0, 1} : Search(r, over) /\ UNCHANGED test_vars
    \/ \E r \in DOMAIN req : Respond(r) /\ UNCHANGED test_vars
    \/ Tick /\ UNCHANGED test_vars

SpecStartup == InitStartup /\ [][NextStartup]_vars

(***************************************************************************)
(* Properties.                                                             *)
(***************************************************************************)
\* run() has returned an answer for the last turn and no turn is in progress
Returned == pc = "idle" /\ turn > 0 /\ raised = "none"

\* the tokens of val occur, in order and adjacent, in text
ContainsText(text, val) == \E i \in DOMAIN text : OccursAt(text, i, val)

\* text ends with one of the two scheduling questions of the integrity check
QuestionAppended(text) ==
    \E q \in {GenericQuestion, SlotQuestion(FreeTimes(ListEventsRun("slots")))} :
        Len(text) >= Len(q) /\ SubSeq(text, Len(text) - Len(q) + 1, Len(text)) = q

\* the last record of type ty among the records the turn produced
LastProduced(ty) ==
    produced[CHOOSE j \in DOMAIN produced :
                /\ produced[j].type = ty
                /\ \A k \in (j + 1)..Len(produced) : produced[k].type # ty]

\* C1: in a turn whose raw user message matches no date/time pattern, every
\* create_event / create_reminder invocation the engine asks for is answered
\* with the failed BLOCKED result and the tool's run is not called.
C1_NoTimeBlocked ==
    ~_has_specific_time(user_input) =>
        \A i \in DOMAIN calls :
            calls[i].name \in {"create_event", "create_reminder"} =>
                /\ ~calls[i].ran
                /\ ~calls[i].result.success
                /\ calls[i].result.error = BlockedError
                /\ calls[i].result.generated_files = << >>

C1_Witness ==
    /\ ~_has_specific_time(user_input)
    /\ \E i \in DOMAIN calls : calls[i].name = "create_event" /\ calls[i].blocked
    /\ \E i \in DOMAIN calls : calls[i].name = "create_reminder" /\ calls[i].blocked

\* C2: a placeholder of the session entity map keeps its original value for
\* ever: no step of the session removes a key of the map or changes the value
\* it maps to.
C2_PlaceholderKeepsValue ==
    [][\A i \in DOMAIN session_entity_map :
          \E j \in DOMAIN session_entity_map' :
              session_entity_map'[j] = session_entity_map[i]]_vars

\* C3: in a turn redacted with privacy enabled, no text handed to the engine
\* (planner, executor round, evaluator, synthesis) contains an original value
\* recorded in the session entity map.
C3_NoOriginalSent ==
    redact_engine # "none" =>
        \A text \in sent : \A i \in DOMAIN session_entity_map :
            ~ContainsText(text, session_entity_map[i].val)

\* C4: the executor is run at most twice for a plan step, and a second time
\* exactly when the evaluation of the first attempt is a failure with retry
\* permission; the retry's outcome starts no third run.
C4_AtMostOneRetry ==
    /\ execs <= 2
    /\ (pc # "idle" /\ execs = 2) => (~eval_result.success /\ eval_result.should_retry)
    /\ \A i \in DOMAIN step_log :
          /\ step_log[i].execs \in {1, 2}
          /\ step_log[i].execs = 2 <=>
                (~step_log[i].verdict.success /\ step_log[i].verdict.should_retry)

C4_Witness ==
    \E i \in DOMAIN step_log :
        /\ step_log[i].execs = 2
        /\ HasErrorMarker(step_results[i])

\* C5: when the synthesized answer holds a scheduling-claim phrase, the turn
\* produced no ics record and the gate was closed, the answer run() returns
\* holds no such phrase and ends with the scheduling question, whatever the
\* user wrote.
C5_ClaimStripped ==
    (Returned /\ ContainsAnyClaim(synth) /\ ~HasIcs(produced) /\ ~time_confirmed) =>
        (~ContainsAnyClaim(final) /\ QuestionAppended(final))

\* C6: in a turn whose gate was open, or that produced an ics record, the
\* integrity check leaves the synthesized answer as it is: nothing is
\* removed, list_events is not asked and no question is appended.
C6_CheckSilent ==
    (Returned /\ (time_confirmed \/ HasIcs(produced))) =>
        /\ checked = synth
        /\ ~probed
        /\ final = restore(synth, session_entity_map)

C6_Witness ==
    /\ Returned
    /\ time_confirmed
    /\ ~HasIcs(produced)
    /\ scheduling_requested(user_input)
    /\ ContainsAnyClaim(synth)
    /\ ContainsAnyClaim(final)

\* C7: in a turn with a closed gate and no ics record whose synthesized
\* answer holds no scheduling-claim phrase, the answer is returned with no
\* sentence removed and no scheduling question appended.
C7_NoClaimNoChange ==
    (Returned /\ ~time_confirmed /\ ~HasIcs(produced) /\ ~ContainsAnyClaim(synth)) =>
        (checked = synth /\ ~probed /\ ~QuestionAppended(final))

\* C8: the gate is set once per turn from the turn's raw user message and has
\* that value at every tool invocation of the turn; a gate an earlier turn
\* opened is closed again in a turn whose message names no time.  (A turn
\* that redact aborted never reaches the gate and invokes no tool.)
C8_GateFollowsMessage ==
    (turn > 0 /\ raised # "redact") =>
        /\ time_confirmed = _has_specific_time(user_input)
        /\ \A i \in DOMAIN calls : calls[i].gate = _has_specific_time(user_input)

C8_Witness ==
    /\ turn = 2
    /\ _has_specific_time(db_tasks[1])
    /\ ~_has_specific_time(user_input)
    /\ \E i \in DOMAIN calls : calls[i].name = "create_event" /\ ~calls[i].gate

\* C9 (as written): in a turn whose raw message matches the time grammar a
\* create_event / create_reminder invocation is never BLOCKED and reaches the
\* registered tool with the very arguments the engine gave.
C9_DispatchedAsGiven ==
    _has_specific_time(user_input) =>
        \A i \in DOMAIN calls :
            calls[i].name \in {"create_event", "create_reminder"} =>
                /\ ~calls[i].blocked
                /\ calls[i].ran
                /\ calls[i].tool_args = calls[i].engine_args

\* C9 (amended): in such a turn the invocation is never BLOCKED and reaches
\* the registered tool with the engine's arguments in which every string
\* value has the session map's placeholders replaced by their originals.
C9_DispatchedRestored ==
    _has_specific_time(user_input) =>
        \A i \in DOMAIN calls :
            calls[i].name \in {"create_event", "create_reminder"} =>
                /\ ~calls[i].blocked
                /\ calls[i].ran
                /\ calls[i].result.error # BlockedError
                /\ DOMAIN calls[i].tool_args = DOMAIN calls[i].engine_args
                /\ \A k \in DOMAIN calls[i].engine_args :
                      calls[i].tool_args[k]
                          = IF calls[i].engine_args[k].str
                            THEN Str(restore(calls[i].engine_args[k].val,
                                             session_entity_map))
                            ELSE calls[i].engine_args[k]

C9_Witness ==
    /\ _has_specific_time(user_input)
    /\ \E i \in DOMAIN calls :
          /\ calls[i].name = "create_event"
          /\ calls[i].ran
          /\ calls[i].result.success
          /\ calls[i].tool_args # calls[i].engine_args

\* C10: after run() returns, last_generated_files holds at most one record
\* per type, one for each type the turn produced, and it is the record of
\* that type produced last (its texts restored).
C10_LastPerType ==
    Returned =>
        /\ \A i, j \in DOMAIN last_generated_files :
              last_generated_files[i].type = last_generated_files[j].type => i = j
        /\ {last_generated_files[i].type : i \in DOMAIN last_generated_files}
              = {produced[j].type : j \in DOMAIN produced}
        /\ \A i \in DOMAIN last_generated_files :
              last_generated_files[i]
                  = IF session_entity_map = << >>
                    THEN LastProduced(last_generated_files[i].type)
                    ELSE RestoreFile(LastProduced(last_generated_files[i].type),
                                     session_entity_map)

C10_Witness ==
    /\ Returned
    /\ Len(produced) = 2
    /\ produced[1].type = produced[2].type
    /\ produced[1].path # produced[2].path
    /\ Len(last_generated_files) = 1
    /\ last_generated_files[1].path = produced[2].path

\* C11 (as stated): for every text without placeholder-shaped substrings and
\* every enabled redaction pass, restoring the redacted text with the map
\* the pass returned gives the text back exactly, overlapping spans,
\* repeated values and mixed types included.
C11_RoundTrip ==
    (ret.fn = "restore" /\ arg.enabled) => ret.out = arg.text

\* C12 (as stated): a failure of the backend never leaves redact as an
\* exception; redact then returns the text unchanged with an empty map.
C12_RedactNeverRaises ==
    ret.fn = "redact" =>
        /\ ~ret.out.raised
        /\ ~arg.report.ok =>
              /\ ret.out.redacted_text = arg.text
              /\ ret.out.entity_map = << >>

\* number of tokens of text that are tok
Occurrences(text, tok) == Cardinality({i \in DOMAIN text : text[i] = tok})

\* the structured identifiers (of every label) that occur in text
StructuredIn(text) ==
    {tok \in UNION {StructuredTok(StructuredLabels[l]) : l \in DOMAIN StructuredLabels} :
       Occurrences(text, tok) > 0}

\* C16: Planner.plan returns between 1 and max_steps steps for every reply
\* of the engine: the first steps of the parsed array in order, and exactly
\* the one-step plan [user_input] when the engine fails, the reply cannot be
\* parsed or the array is empty.
C16_PlanBounded ==
    ret.fn = "plan" =>
        /\ Len(ret.out) \in 1..max_plan_steps
        /\ IF arg.reply.kind = "raise" THEN ret.out = << arg.input >>
           ELSE \E parsed \in {_parse_steps(arg.reply.raw)} :
                  IF parsed = << >> THEN ret.out = << arg.input >>
                  ELSE /\ ret.out = SubSeq(parsed, 1, Len(ret.out))
                       /\ Len(ret.out) = Min(Len(parsed), max_plan_steps)

\* C16 witness: plan was called with an array longer than the maximum, and
\* returned its first max_steps steps.
C16_Witness ==
    /\ ret.fn = "plan"
    /\ arg.reply.kind = "text"
    /\ Len(_parse_steps(arg.reply.raw)) > max_plan_steps
    /\ ret.out = SubSeq(PlanSteps, 1, max_plan_steps)

\* C20 (as stated): in the pattern backend every occurrence of a structured
\* identifier is replaced by one placeholder, with one map entry for it.
C20_EveryOccurrence ==
    (ret.fn = "redact" /\ arg.enabled /\ ~arg.nlp_ok) =>
        \A tok \in StructuredIn(arg.text) :
            /\ Occurrences(ret.out.redacted_text, tok) = 0
            /\ \E ph \in MapKeys(ret.out.entity_map) :
                  /\ MapLookup(ret.out.entity_map, ph) = << tok >>
                  /\ Occurrences(ret.out.redacted_text, ph) = Occurrences(arg.text, tok)
                  /\ \A other \in MapKeys(ret.out.entity_map) :
                        MapLookup(ret.out.entity_map, other) = << tok >> => other = ph

C14_ToolFailureNeverAborts ==
    /\ raised # "list_events"
    /\ \A i \in DOMAIN calls :
          (calls[i].name \notin RegisteredTools \/ calls[i].name = "list_events")
              => (calls[i].result.success = (calls[i].name = "list_events"
                                             /\ calls[i].result.data # << >>))

\* C15: execute_step makes at most max_tool_rounds engine calls.  A round
\* either runs the reply's tool invocations and goes to the next round, which
\* it does only below the maximum, or it returns: with the reply's text after
\* one engine call and no tool call, or, when every round was used, with the
\* max-rounds message and no engine call at all.
C15_StepTerminates ==
    /\ [](round_num <= max_tool_rounds)
    /\ [][pc = "exec" =>
            \/ /\ pc' = "exec"
               /\ round_num' = round_num + 1
               /\ round_num < max_tool_rounds
               /\ engine_budget' = engine_budget - 1
               /\ UNCHANGED << result_text, step_idx, attempt, step_results >>
            \/ /\ pc' # "exec" \/ round_num' = 0
               /\ calls' \in {calls, << >>}
               /\ pc' = "eval" => messages'[Len(messages')] = Msg("assistant", result_text')
               /\ IF round_num = max_tool_rounds
                  THEN result_text' = MaxRoundsText /\ engine_budget' = engine_budget
                  ELSE result_text' # MaxRoundsText /\ engine_budget' = engine_budget - 1]_vars

\* C15 witness: every one of the max_tool_rounds rounds returned tool
\* invocations and the step returned the max-rounds message.
C15_Witness ==
    /\ pc = "eval"
    /\ round_num = max_tool_rounds
    /\ result_text = MaxRoundsText

\* the requests inside chat's critical section (server.py lines 113-128)
InCritical == {r \in DOMAIN req : req[r].kind = "chat" /\ req[r].pc \in {"locked", "run"}}

\* C17: in the server no two executions of agent.run overlap: at most one
\* request is inside the critical section, it is the holder of the lock, a
\* turn in progress is the turn of that request, and the ai_view and
\* generated_files of a response were read while the agent's latest turn was
\* the request's own (so a request run with redaction off gets its own
\* message back as ai_view).
C17_RunsSerialized ==
    /\ Cardinality(InCritical) <= 1
    /\ lock = InCritical
    /\ pc # "idle" => \E r \in lock : req[r].pc = "run" /\ req[r].turn = turn
    /\ \A r \in DOMAIN req :
         (req[r].kind = "chat" /\ req[r].pc = "done")
           => /\ req[r].read_turn = req[r].turn
              /\ req[r].status = 200
              /\ ~req[r].ran_privacy => req[r].ai_view = req[r].message

\* a first request has been answered from its own turn, a second request is
\* being run and has already replaced the agent's last_redacted_input
C17_Witness ==
    \E r1 \in DOMAIN req, r2 \in DOMAIN req :
        /\ req[r1].kind = "chat" /\ req[r1].pc = "done" /\ req[r1].read_turn = 1
        /\ req[r2].kind = "chat" /\ req[r2].pc = "run" /\ req[r2].turn = 2
        /\ pc # "idle"
        /\ last_redacted_input # req[r1].ai_view

\* C18: every chat request is run under the privacy setting the request
\* itself supplied, whatever the other requests and toggles do.
C18_RunsUnderOwnSetting ==
    \A r \in DOMAIN req :
        (req[r].kind = "chat" /\ req[r].pc \in {"run", "done"})
          => req[r].ran_privacy = req[r].privacy

\* C19: the statistical backend is loaded and tested at most once, and once
\* there is a verdict it never changes and no load is attempted again.
C19_LoadedOnce ==
    [][/\ loads' <= 1
       /\ nlp_active # "none" => (nlp_active' = nlp_active /\ loads' = loads)]_vars

\* the placeholder ph occurs in the text, as a word or inside one
HasPlaceholder(text, ph) ==
    \E i \in DOMAIN text :
        \/ text[i] = ph
        \/ text[i] # LONG /\ Len(text[i]) > Len(ph) /\ StrFind(text[i], ph, 1) > 0

\* no placeholder of the map occurs in the text
NoPlaceholders(text, m) == \A i \in DOMAIN m : ~HasPlaceholder(text, m[i].ph)

\* C21: restore is idempotent once the placeholders are gone: when
\* restore(X, M) holds no placeholder of M a second restore returns it as it
\* is, and a text without placeholders of M is returned unchanged.
C21_RestoreIdempotent ==
    /\ (ret.fn = "restored" /\ NoPlaceholders(arg.text, arg.map)) => ret.out = arg.text
    /\ (ret.fn = "restored_twice" /\ NoPlaceholders(ret.first, arg.map))
         => ret.out = ret.first

\* the first pass replaced placeholders and the second pass has run on its
\* placeholder-free result
C21_Witness ==
    /\ ret.fn = "restored_twice"
    /\ ~NoPlaceholders(arg.text, arg.map)
    /\ NoPlaceholders(ret.first, arg.map)
    /\ ret.first # arg.text

\* C22: for a map built by redaction restore leaves no occurrence of any of
\* its placeholders, and applying the entries in another order gives the
\* same text, also with <PERSON_1> and <PERSON_10> in one map.
C22_EveryPlaceholderAnyOrder ==
    (ret.fn = "restored" /\ arg.by_redaction)
      => /\ NoPlaceholders(ret.out, arg.map)
         /\ ret.permuted = ret.out

\* a map with <PERSON_1> and <PERSON_10>, applied in reverse order to a text
\* that holds both
C22_Witness ==
    /\ ret.fn = "restored"
    /\ arg.by_redaction
    /\ Len(arg.map) >= 10
    /\ arg.order = "reverse"
    /\ HasPlaceholder(arg.text, Placeholder("PERSON", 1))
    /\ HasPlaceholder(arg.text, Placeholder("PERSON", 10))
    /\ ret.out = << "Hi", "amy", "and", "jon" >>

\* C23: with redaction disabled, or on a text that is empty or blank, redact
\* returns the text as it is with an empty entity map and engine "none", and
\* the turn's merge leaves the session entity map as it was.
C23_DisabledIsIdentity ==
    (ret.fn \in {"redact", "merged"} /\ (~arg.enabled \/ IsBlank(arg.text)))
      => /\ ret.out = [raised |-> FALSE, redacted_text |-> arg.text,
                       entity_map |-> << >>, engine |-> "none"]
         /\ session_entity_map = << >>
         /\ ret.fn = "merged" => (last_redacted_input = arg.text /\ redact_engine = "none")

\* redaction is disabled, the text holds an address the enabled redact
\* replaces, and the merge has run
C23_Witness ==
    /\ ret.fn = "merged"
    /\ ~arg.enabled
    /\ arg.text = << "mail", "bob@x.io", "and", "cc", "bob@x.io" >>
    /\ last_redacted_input = arg.text

\* the texts of a generated-file record
FileTexts(f) == {f[k] : k \in DOMAIN f \cap {"label", "to", "subject", "body"}}

\* C24: every invocation of draft_reply, create_event or create_reminder is
\* given the engine's arguments with every string value restored from the
\* session map, no placeholder of the session map is left in such a value,
\* and none is in a text of a file the turn's tools produced.
C24_WriteToolsGetOriginals ==
    /\ \A i \in DOMAIN calls :
          calls[i].name \in {"draft_reply", "create_event", "create_reminder"} =>
              \A k \in DOMAIN calls[i].engine_args :
                  calls[i].engine_args[k].str =>
                      /\ calls[i].tool_args[k]
                            = Str(restore(calls[i].engine_args[k].val, session_entity_map))
                      /\ NoPlaceholders(calls[i].tool_args[k].val, session_entity_map)
    /\ \A j \in DOMAIN produced :
          \A text \in FileTexts(produced[j]) : NoPlaceholders(text, session_entity_map)

\* draft_reply has run on arguments that held a placeholder of the session
\* map and has produced its file
C24_Witness ==
    \E i \in DOMAIN calls :
        /\ calls[i].name = "draft_reply"
        /\ calls[i].result.success
        /\ ~NoPlaceholders(calls[i].engine_args.body.val, session_entity_map)
        /\ \E j \in DOMAIN produced : produced[j].type = "mailto"

\* C25: evaluate follows three tiers in order.  A result with the error
\* marker fails, is to be retried and costs no engine call; otherwise a
\* result shorter than the threshold succeeds without an engine call;
\* otherwise the engine is called once, and when the call fails or the reply
\* holds no JSON verdict the result is a success that is not retried.
C25_ThreeTiers ==
    ret.fn = "evaluate" =>
        IF HasErrorMarker(arg.tool_result)
        THEN ~ret.out.success /\ ret.out.should_retry /\ ret.engine_calls = 0
        ELSE IF CharLen(arg.tool_result) < EvalShortLen
        THEN ret.out.success /\ ~ret.out.should_retry /\ ret.engine_calls = 0
        ELSE /\ ret.engine_calls = 1
             /\ ~arg.parsable => (ret.out.success /\ ~ret.out.should_retry)
             /\ (arg.reply.kind = "text" /\ arg.reply.raw = JsonVerdict(FALSE, TRUE))
                  => (~ret.out.success /\ ret.out.should_retry)

\* a long result without the marker whose evaluation reply has braces but
\* no JSON between them
C25_Witness ==
    /\ ret.fn = "evaluate"
    /\ arg.tool_result = << LONG >>
    /\ arg.reply.kind = "text"
    /\ arg.reply.raw = << Lex("{"), Prose[1], Lex("}") >>
    /\ ret.out.success

\* C26: every execution of a step is evaluated, the first attempt and the
\* retry alike: whenever execute_step returns to run, an evaluation of what
\* it returned comes next.
C26_EveryAttemptEvaluated ==
    [][(pc = "exec" /\ (pc' # "exec" \/ step_idx' # step_idx)) => pc' = "eval"]_vars

\* the step describes the creation of an event or a reminder
IsEventCreationStep(step) ==
    \E i \in DOMAIN step :
        \/ step[i] \in {"create_event", "create_reminder"}
        \/ /\ step[i] \in {"Create", "create"}
           /\ \E j \in DOMAIN step : j > i /\ step[j] \in {"event", "reminder"}

\* C27: for a user message without a date/time token the plan the Planner
\* returns holds no event-creation step.
C27_NoEventStepWithoutTime ==
    (ret.fn = "plan" /\ ~_has_specific_time(arg.input))
      => \A i \in DOMAIN ret.out : ~IsEventCreationStep(ret.out[i])
\* C28: over a turn that completes the conversation log receives exactly two
\* rows, in this order: the user's message as it was typed (one of the raw
\* messages, neither redacted nor extended by the attachment context) when
\* the turn starts, and the restored answer that run returns when it ends;
\* no step in between writes to the log, with privacy enabled or disabled.
C28_LogGetsRawMessageAndAnswer ==
    [][/\ (pc = "idle" /\ pc' # "idle")
          => /\ user_input' \in UserMessages
             /\ db_messages' = Append(db_messages,
                                      [role |-> "user", content |-> user_input'])
       /\ (pc # "idle" /\ pc' # "idle") => db_messages' = db_messages
       /\ (pc # "idle" /\ pc' = "idle" /\ raised' = "none")
          => /\ final' = restore(checked', session_entity_map)
             /\ db_messages' = Append(db_messages,
                                      [role |-> "assistant", content |-> final'])
             /\ db_messages[Len(db_messages)] = [role |-> "user", content |-> user_input]
      ]_vars

\* a turn with attachments and privacy enabled has returned: the redacted
\* input differs from the message, carries the attachment context, and the
\* answer was changed by restore
C28_Witness ==
    /\ pc = "idle" /\ turn > 0 /\ raised = "none" /\ privacy_enabled
    /\ ContainsText(safe_input, << "[Attached", "files", "context]" >>)
    /\ ~ContainsText(user_input, << "[Attached", "files", "context]" >>)
    /\ final # checked
    /\ Len(db_messages) >= 2
    /\ db_messages[Len(db_messages) - 1] = [role |-> "user", content |-> user_input]
    /\ db_messages[Len(db_messages)] = [role |-> "assistant", content |-> final]

\* C29: when run leaves the step loop with a plan of exactly one step, no
\* engine call is made for synthesis and the answer is the output of the last
\* execute_step call of that step (the retry's if the step was retried); with
\* a plan of more than one step exactly one engine call is made, and what it
\* is sent are the user's (redacted) request and the outputs of all the steps
\* joined in order.
C29_SynthesisOnlyForSeveralSteps ==
    [][(pc = "finish" /\ pc' = "idle")
       => /\ Len(steps) = 1
             => /\ engine_budget' = engine_budget
                /\ sent' = sent
                /\ Len(step_results) = 1
                /\ synth' = result_text
                /\ synth' = step_results[1]
          /\ Len(steps) > 1
             => /\ engine_budget' = engine_budget - 1
                /\ Len(step_results) = Len(steps)
                /\ sent' = {safe_input, Combined(step_results)}
      ]_vars

\* a one-step plan whose step was retried has been answered: the answer is
\* the text the retry returned, which is not the text the evaluator refused
C29_Witness ==
    /\ pc = "idle" /\ turn > 0 /\ raised = "none"
    /\ Len(steps) = 1
    /\ Len(step_log) = 1 /\ step_log[1].execs = 2
    /\ synth = result_text
    /\ \E i \in DOMAIN messages :
         /\ messages[i].role = "assistant"
         /\ i < Len(messages)
         /\ messages[i].tool_calls = << >>
         /\ messages[i].content # synth

\* what the transcript keeps of its former messages is their most recent
\* part, in the former order, at the head of the new transcript; a message is
\* dropped only from a transcript that is full
KeepsMostRecent(old, new) ==
    \E d \in 0..Len(old) :
      /\ Len(new) >= Len(old) - d
      /\ SubSeq(new, 1, Len(old) - d) = SubSeq(old, d + 1, Len(old))
      /\ d > 0 => Len(new) >= buffer_size

\* C30: the session transcript holds at most buffer_size messages whenever an
\* execute_step call starts (the first call of a step or its retry) and
\* whenever a turn ends, and every change of it keeps the most recent
\* messages in their order, the oldest being dropped first.
C30_TranscriptBounded ==
    [][/\ (pc' = "exec" /\ (pc # "exec" \/ step_idx' # step_idx))
          => Len(conversation') <= buffer_size
       /\ (pc # "idle" /\ pc' = "idle") => Len(conversation') <= buffer_size
       /\ KeepsMostRecent(conversation, conversation')
      ]_vars

\* C31: when a turn has returned, the records restore was applied to are
\* already deduplicated (no two of one type) and each of them is, restored,
\* one of the records reported to the caller.
C31_RestoreAfterDedup ==
    (pc = "idle" /\ turn > 0 /\ raised = "none")
    => /\ \A i, j \in DOMAIN restored_files :
            restored_files[i].type = restored_files[j].type => i = j
       /\ \A i \in DOMAIN restored_files :
            \E j \in DOMAIN last_generated_files :
               last_generated_files[j] = RestoreFile(restored_files[i], session_entity_map)

\* a PERSON placeholder occurs in the text
HasPersonPlaceholder(text) ==
    \E i \in DOMAIN text, n \in DOMAIN text : text[i] = Placeholder("PERSON", n)

\* C32: every name the contextual extraction emits is non-empty, has at least
\* 3 characters, is not itself a stop-word and neither begins nor ends with
\* a stop-word; "email to schedule the meeting" yields no candidate and no
\* PERSON placeholder.
C32_NoStopWordNames ==
    ret.fn = "names"
    => /\ \A k \in DOMAIN ret.out :
            With(ret.out[k].name, LAMBDA name :
                /\ name # << >>
                /\ CharLen(name) >= 3
                /\ ~(Len(name) = 1 /\ Lower(name[1]) \in _STOP_WORDS)
                /\ Lower(name[1]) \notin _STOP_WORDS
                /\ Lower(name[Len(name)]) \notin _STOP_WORDS)
       /\ arg.text = << "email", "to", "schedule", "the", "meeting" >>
          => /\ ret.out = << >>
             /\ ret.redacted.entity_map = << >>
             /\ ~HasPersonPlaceholder(ret.redacted.redacted_text)

\* the extraction has run on "email to schedule the meeting", where the cue
\* pattern matched words that are all stop-words, and emitted nothing
C32_Witness ==
    /\ ret.fn = "names"
    /\ arg.text = << "email", "to", "schedule", "the", "meeting" >>
    /\ FindIter(4, arg.text, 1) # << >>
    /\ ret.out = << >>

\* the matches of the four cue patterns in a text
CueMatches(text) ==
    FindIter(1, text, 1) \o FindIter(2, text, 1) \o FindIter(3, text, 1)
    \o FindIter(4, text, 1)

\* C33: when the words a cue pattern captured include a company-suffix token,
\* or the text around them carries an organization signal word, no part of
\* them is emitted as a person's name; "email to Acme Corp about the deal"
\* gets no PERSON placeholder.
C33_OrgNeverPerson ==
    ret.fn = "names"
    => /\ \A k \in DOMAIN CueMatches(arg.text) :
            With(CueMatches(arg.text)[k], LAMBDA m :
                With(SubSeq(arg.text, m.from, m.from + m.n - 1), LAMBDA name :
                    ((\E w \in DOMAIN name : Lower(name[w]) \in org_suffixes)
                     \/ _is_org_name(name, arg.text))
                    => \A c \in DOMAIN ret.out :
                          ~(ret.out[c].start >= m.from
                            /\ ret.out[c].end <= m.from + m.n)))
       /\ arg.text = << "email", "to", "Acme", "Corp", "about", "the", "deal" >>
          => ~HasPersonPlaceholder(ret.redacted.redacted_text)

\* C40: whatever the interleaving of the first requests, get_agent builds at
\* most one AgentLoop and every request is given that same instance.
C40_OneAgent ==
    /\ Len(agents) <= 1
    /\ \A r \in DOMAIN req : req[r].agent \in {0, 1}

\* C34: two consecutive web searches are never sent less than the limiter's
\* interval apart (a search that comes early is delayed, none is refused).
C34_SearchesSpaced ==
    \A i \in DOMAIN issued :
       i > 1 => issued[i].at - issued[i - 1].at >= _interval

\* C35: in a turn whose message names no time (its gate is closed), no
\* record of type ics is among the files of the turn: neither in those the
\* running step has collected so far, nor in those accumulated for the turn,
\* whatever the steps, rounds and retries.
C35_ClosedGateNoIcs ==
    ~_has_specific_time(user_input) =>
        /\ pc = "exec" => ~HasIcs(collected_files)
        /\ ~HasIcs(produced)
        /\ ~HasIcs(last_generated_files)

\* a turn with a closed gate has returned in which the engine asked for
\* create_event, which was blocked, and another tool's file was reported
C35_Witness ==
    /\ Returned
    /\ ~_has_specific_time(user_input)
    /\ \E i \in DOMAIN calls : calls[i].name = "create_event" /\ calls[i].blocked
    /\ last_generated_files # << >>
    /\ ~HasIcs(last_generated_files)

\* C36: after a pass of the pattern backend no name recorded in the map it
\* returns still stands in the redacted text as whole words: every occurrence
\* of a detected name has been replaced.
C36_EveryOccurrenceReplaced ==
    ret.fn = "names"
    => \A i \in DOMAIN ret.redacted.entity_map :
          ~ContainsText(ret.redacted.redacted_text, ret.redacted.entity_map[i].val)

C38_FilesOfThisTurnOnly ==
    [][/\ (turn' # turn => last_generated_files' = << >>)
       /\ \A i \in DOMAIN last_generated_files' :
             \E j \in DOMAIN produced' :
                last_generated_files'[i] \in
                    {produced'[j], RestoreFile(produced'[j], session_entity_map')}
       /\ (pc' = "idle" /\ produced' = << >> => last_generated_files' = << >>)
      ]_vars

\* the first chat's response carried a file; the second chat ran as the
\* second turn, generated nothing, and its response carries no file
C38_Witness ==
    /\ turn = 2
    /\ last_generated_files = << >>
    /\ \E a, b \in DOMAIN req :
          /\ req[a].pc = "done" /\ req[a].turn = 1 /\ req[a].generated_files # << >>
          /\ req[b].pc = "done" /\ req[b].turn = 2 /\ req[b].read_turn = 2
          /\ req[b].status = 200 /\ req[b].generated_files = << >>

\* C39: a tool that is not draft_reply, create_event or create_reminder is
\* called with the arguments exactly as the engine wrote them; a placeholder
\* of the session map in the query of a web search is still there when the
\* search runs, and the original value is not in it.
C39_OtherToolsGetEngineArgs ==
    \A i \in DOMAIN calls :
        calls[i].name \notin {"draft_reply", "create_event", "create_reminder"} =>
            /\ calls[i].tool_args = calls[i].engine_args
            /\ calls[i].name = "web_research" =>
                  \A m \in DOMAIN session_entity_map :
                      ContainsText(calls[i].engine_args.query.val,
                                   << session_entity_map[m].ph >>)
                          => /\ ContainsText(calls[i].tool_args.query.val,
                                             << session_entity_map[m].ph >>)
                             /\ ~ContainsText(calls[i].tool_args.query.val,
                                              session_entity_map[m].val)

\* a web search and an unregistered tool were invoked in a session whose map
\* holds the placeholder their arguments name
C39_Witness ==
    /\ \E m \in DOMAIN session_entity_map : session_entity_map[m].ph = P1
    /\ \E i, j \in DOMAIN calls :
          /\ calls[i].name = "web_research" /\ calls[i].ran
          /\ ContainsText(calls[i].engine_args.query.val, << P1 >>)
          /\ calls[j].name = "send_email" /\ ~calls[j].ran

====
